---- MODULE Spec2Model ----
(***************************************************************************)
(* A model of configgle's copy-on-write proxy (configgle/copy_on_write.py). *)
(*                                                                         *)
(* The heap is a sequence of Python objects; a proxy node is a CopyOnWrite  *)
(* instance.  Every handler of the class is one action that runs the whole  *)
(* handler, the recursive _copy() and __exit__ included.  A handler works   *)
(* on a record st = [heap, nodes, hist, err]; err names the exception that  *)
(* ended it, and the state it leaves is the half-updated one Python leaves. *)
(* The iteration order of a parent set (a Python set) is arbitrary: every   *)
(* operation draws the order `ord` it iterates with.                        *)
(***************************************************************************)
EXTENDS Integers, Sequences, FiniteSets, TLC

\* Number of proxy operations the caller performs before leaving the session
\* (one fewer on the graph with two roots, which has twice the proxies).
MaxOps == 4

VARIABLES
    shape,      \* which object graph the session was opened on
    heap,       \* Seq of objects: [kind, slots, hasFin, fin]
    nodes,      \* Seq of CopyOnWrite instances
    last,       \* the operation started last and how it ended
    ops,        \* number of operations started
    exited,     \* root proxies whose __exit__ has been called
    hist,       \* what an observer of the session records (copies made,
                \* finalize calls, the order of exit, the nodes written to)
    objs,       \* traverse.py: the nested value handed to the traversal
    recurse,    \* traverse.py: the caller's recurse predicate
    walk,       \* traverse.py: the generator (frames, seen, pairs yielded)
    query,      \* traverse.py: the arguments of a call of a pattern function
    answer,     \* traverse.py: what the pattern function returned
    upd,        \* fig.py: a call of Maker.update (objects, arguments, result)
    fz          \* fig.py: a call of Maker.finalize (objects, result)

vars == <<shape, heap, nodes, last, ops, exited, hist, objs, recurse, walk,
          query, answer, upd, fz>>
\* What the actions of one part of the library leave alone.
notProxy == <<objs, recurse, walk, query, answer, upd, fz>>
notWalk == <<shape, heap, nodes, last, ops, exited, hist, query, answer, upd, fz>>
notMatch == <<shape, heap, nodes, last, ops, exited, hist, objs, recurse, walk, upd,
              fz>>
notUpdate == <<shape, heap, nodes, last, ops, exited, hist, objs, recurse, walk,
               query, answer, fz>>
notFinalize == <<shape, heap, nodes, last, ops, exited, hist, objs, recurse, walk,
                 query, answer, upd>>

----------------------------------------------------------------------------
\* Values

NoneV == [t |-> "none", v |-> 0]
IntV(i) == [t |-> "int", v |-> i]
Ref(o) == [t |-> "ref", v |-> o]
\* The bound method `finalize` of object o, as getattr(o, "finalize") returns it.
Meth(o) == [t |-> "meth", v |-> o]
\* The bound method `increment` of the counter o.
Incr(o) == [t |-> "incr", v |-> o]

AttrNames == {"a", "b"}
ItemKeys == {"k"}

\* The value a direct (non-proxy) write stores.
NewValue == IntV(1)

MkObj(slots) == [kind |-> "obj", slots |-> slots, hasFin |-> TRUE, fin |-> FALSE]
MkDict(slots) == [kind |-> "dict", slots |-> slots, hasFin |-> FALSE, fin |-> FALSE]
\* An object with attributes and a mutating method increment (self.b += 1),
\* and no finalize.
MkCounter(slots) == [kind |-> "counter", slots |-> slots, hasFin |-> FALSE, fin |-> FALSE]

RemoveKey(f, k) == [x \in DOMAIN f \ {k} |-> f[x]]
PutKey(f, k, v) == [x \in DOMAIN f \cup {k} |-> IF x = k THEN v ELSE f[x]]

----------------------------------------------------------------------------
\* The ordered children cache (a Python dict: insertion order, unique keys),
\* kept as a sequence of <<key, node>> pairs.

ChildGet(ch, key) ==
    IF \E i \in 1..Len(ch) : ch[i][1] = key
    THEN ch[CHOOSE i \in 1..Len(ch) : ch[i][1] = key][2]
    ELSE 0

ChildSet(ch, key, c) ==
    IF \E i \in 1..Len(ch) : ch[i][1] = key
    THEN [i \in 1..Len(ch) |-> IF ch[i][1] = key THEN <<key, c>> ELSE ch[i]]
    ELSE Append(ch, <<key, c>>)

ChildPop(ch, key) == SelectSeq(ch, LAMBDA e : e[1] # key)

\* The cache key __getitem__ builds for an item key: f"__item_{key!r}".
CacheKey(k) == "__item_'" \o k \o "'"

\* CopyOnWrite.__init__: a fresh proxy around `w`, registered under `ps`.
NewNode(w, ps) ==
    [wrapped |-> w, parents |-> ps, children |-> <<>>,
     is_copy |-> FALSE, is_finalized |-> FALSE]

----------------------------------------------------------------------------
\* The object graphs a session is opened on.

Shapes == {"chain", "shared", "dict", "counter"}

\* chain : root.a.a.b, with the sibling subtrees root.b and root.a.b
\* shared: two roots whose attribute a is the same object
\* dict  : root.a is a mapping whose item k is an object with finalize
\* counter: root.a is a counter, whose method increment adds one to its b
ShapeHeap(s) ==
    CASE s = "chain" ->
           << MkObj(("a" :> Ref(2)) @@ ("b" :> Ref(4))),
              MkObj(("a" :> Ref(3)) @@ ("b" :> IntV(0))),
              MkObj("b" :> IntV(0)),
              MkObj("b" :> IntV(0)) >>
      [] s = "shared" ->
           << MkObj("a" :> Ref(3)),
              MkObj("a" :> Ref(3)),
              MkObj("b" :> IntV(0)) >>
      [] s = "dict" ->
           << MkObj("a" :> Ref(2)),
              MkDict("k" :> Ref(3)),
              MkObj("b" :> IntV(0)) >>
      [] s = "counter" ->
           << MkObj("a" :> Ref(2)),
              MkCounter("b" :> IntV(0)) >>

\* The root proxies of the session: CopyOnWrite(original) for each root object.
Roots(s) == IF s = "shared" THEN {1, 2} ELSE {1}

ShapeNodes(s) ==
    IF s = "shared"
    THEN << NewNode(Ref(1), {}), NewNode(Ref(2), {}) >>
    ELSE << NewNode(Ref(1), {}) >>

Zeros(n) == [i \in 1..n |-> 0]

NoOp == [op |-> "none", n |-> 0, key |-> "", val |-> NoneV, res |-> 0,
         st |-> "ok", exc |-> "", wasCopy |-> FALSE, copied |-> {}]

\* No proxy session is open.
NoSession ==
    /\ shape = "none" /\ heap = <<>> /\ nodes = <<>> /\ last = NoOp
    /\ ops = 0 /\ exited = {} /\ hist = <<>>

\* A session of the proxy runs no traversal.
NoTraversal ==
    /\ objs = <<>>
    /\ recurse = [kind |-> "all"]
    /\ walk = [at |-> "none", stack |-> <<>>, seen |-> {}, out |-> <<>>]

\* Nor does it call a pattern function.
NoQuery ==
    /\ query = [fn |-> "none"]
    /\ answer = [fn |-> "none"]

\* Nor Maker.update.
NoUpdate == upd = [at |-> "none"]

\* Nor Maker.finalize.
NoFinalize == fz = [at |-> "none"]

Init ==
    /\ shape \in Shapes
    /\ heap = ShapeHeap(shape)
    /\ nodes = ShapeNodes(shape)
    /\ last = NoOp
    /\ ops = 0
    /\ exited = {}
    /\ hist = [copies |-> Zeros(Len(ShapeNodes(shape))),
               fins |-> Zeros(Len(ShapeNodes(shape))),
               calls |-> Zeros(Len(ShapeNodes(shape))),
               origin |-> [i \in 1..Len(ShapeNodes(shape)) |-> Ref(i)],
               targets |-> {}, written |-> {}, log |-> <<>>,
               mutated |-> FALSE, raised |-> FALSE]
    /\ NoTraversal
    /\ NoQuery
    /\ NoUpdate
    /\ NoFinalize

----------------------------------------------------------------------------
\* The record a handler works on.

Here == [heap |-> heap, nodes |-> nodes, hist |-> hist, err |-> ""]

NodeIds == 1..Len(nodes)
Wrapped(n) == nodes[n].wrapped
IsRef(n) == Wrapped(n).t = "ref"
\* The object a node wraps (only for nodes that wrap an object).
ObjOf(n) == heap[Wrapped(n).v]
IsObjNode(n) == IsRef(n) /\ ObjOf(n).kind \in {"obj", "counter"}
IsDictNode(n) == IsRef(n) /\ ObjOf(n).kind = "dict"

\* getattr(o, key): instance attributes, then the methods of the class.
HasAttr(h, o, key) ==
    \/ key \in DOMAIN h[o].slots
    \/ key = "finalize" /\ h[o].hasFin
    \/ key = "increment" /\ h[o].kind = "counter"
Attr(h, o, key) ==
    IF key \in DOMAIN h[o].slots THEN h[o].slots[key]
    ELSE IF key = "increment" THEN Incr(o) ELSE Meth(o)

\* setattr(o, key, value); a dict has no __dict__ and refuses every attribute.
CanSetAttr(h, o) == h[o].kind # "dict"
SetSlot(h, o, key, val) == [h EXCEPT ![o].slots = PutKey(@, key, val)]
DelSlot(h, o, key) == [h EXCEPT ![o].slots = RemoveKey(@, key)]

\* copy.copy(x): a new object with the same slots; an int copies to itself.
ShallowCopy(h, w) == IF w.t = "ref" THEN Append(h, h[w.v]) ELSE h
CopiedValue(h, w) == IF w.t = "ref" THEN Ref(Len(h) + 1) ELSE w

\* The finalize method of the wrapped objects: `return copy.copy(self)`, the
\* result marked so that it can be told from a copy made by _copy().
Finalized(o) == [o EXCEPT !.fin = TRUE]

----------------------------------------------------------------------------
\* Iteration order of `self._self_parents`.  Only nodes that share a parent
\* set with another node need a place in the order.

ParentNodes(ns, n) == {pr[1] : pr \in ns[n].parents}
Contended(ns) ==
    {m \in 1..Len(ns) :
       \E n \in 1..Len(ns) : m \in ParentNodes(ns, n) /\ Cardinality(ParentNodes(ns, n)) > 1}
Orders(ns) ==
    {f \in [1..Cardinality(Contended(ns)) -> Contended(ns)] :
       \A i, j \in DOMAIN f : i # j => f[i] # f[j]}

Rank(ord, m) == IF \E i \in DOMAIN ord : ord[i] = m
                THEN CHOOSE i \in DOMAIN ord : ord[i] = m ELSE 0
KeyRank(key) == CASE key = "a" -> 1 [] key = "b" -> 2 [] key = "finalize" -> 3
                  [] key = "increment" -> 4 [] OTHER -> 5
Before(ord, p, q) ==
    \/ Rank(ord, p[1]) < Rank(ord, q[1])
    \/ Rank(ord, p[1]) = Rank(ord, q[1]) /\ KeyRank(p[2]) <= KeyRank(q[2])

RECURSIVE InOrder(_, _)
InOrder(ps, ord) ==
    IF ps = {} THEN <<>>
    ELSE LET p == CHOOSE x \in ps : \A y \in ps : Before(ord, x, y)
         IN <<p>> \o InOrder(ps \ {p}, ord)

----------------------------------------------------------------------------
\* CopyOnWrite._copy

RECURSIVE CopyNode(_, _, _, _)
RECURSIVE CopyParents(_, _, _, _, _)
RECURSIVE Repoint(_, _, _, _)

\* _copy() and __exit__ without their loop over the parents.
RepointNone(st, ps, i, val) == st

\* The loop over the parents, ended after the first pair.
RepointFirst(st, ps, i, val) ==
    IF i > Len(ps) \/ i > 1 THEN st
    ELSE LET o == st.nodes[ps[i][1]].wrapped.v IN
         IF ~CanSetAttr(st.heap, o) THEN [st EXCEPT !.err = "AttributeError"]
         ELSE [st EXCEPT !.heap = SetSlot(@, o, ps[i][2], val)]

\* `for parent, key in ...: setattr(parent.__wrapped__, key, value)`, used by
\* _copy (value: the new copy) and __exit__ (value: the finalized value).
\* setattr on a dict raises AttributeError and ends the loop.
Repoint(st, ps, i, val) ==
    IF i > Len(ps) THEN st
    ELSE LET o == st.nodes[ps[i][1]].wrapped.v IN
         IF ~CanSetAttr(st.heap, o) THEN [st EXCEPT !.err = "AttributeError"]
         ELSE Repoint([st EXCEPT !.heap = SetSlot(@, o, ps[i][2], val)], ps, i + 1, val)

\* _copy() that copies the node alone and leaves its parents as they are.
CopyParentsNone(st, ps, i, ord, active) == st

\* `for parent, _ in self._self_parents: parent._copy()`
CopyParents(st, ps, i, ord, active) ==
    IF i > Len(ps) \/ st.err # "" THEN st
    ELSE CopyParents(CopyNode(st, ps[i][1], ord, active), ps, i + 1, ord, active)

\* `self.__wrapped__ = copy.copy(self.__wrapped__); self._self_is_copy = True`
CopySelf(st, n) ==
    [st EXCEPT !.heap = ShallowCopy(@, st.nodes[n].wrapped),
               !.nodes[n].wrapped = CopiedValue(st.heap, @),
               !.nodes[n].is_copy = TRUE,
               !.hist.copies[n] = @ + 1]

\* _copy() without its `if self._self_is_copy: return self`.
CopyNodeAlways(st, n, ord, active) ==
    IF n \in active THEN [st EXCEPT !.err = "RecursionError"]
    ELSE LET ps == InOrder(st.nodes[n].parents, ord)
             s1 == CopyParents(st, ps, 1, ord, active \cup {n})
         IN IF s1.err # "" THEN s1
            ELSE LET s2 == CopySelf(s1, n)
                 IN Repoint(s2, ps, 1, s2.nodes[n].wrapped)

\* node._copy().  `active` holds the nodes whose _copy() is still copying
\* its parents: re-entering one of them repeats the same calls for ever, and
\* Python raises RecursionError before any of them has copied anything.
CopyNode(st, n, ord, active) ==
    IF st.nodes[n].is_copy THEN st
    ELSE IF n \in active THEN [st EXCEPT !.err = "RecursionError"]
    ELSE LET ps == InOrder(st.nodes[n].parents, ord)
             s1 == CopyParents(st, ps, 1, ord, active \cup {n})
         IN IF s1.err # "" THEN s1
            ELSE LET s2 == CopySelf(s1, n)
                 IN Repoint(s2, ps, 1, s2.nodes[n].wrapped)

----------------------------------------------------------------------------
\* Bookkeeping of the caller's operations.

\* The caller may start an operation: the session is open.  An exception
\* propagates out of the with block, so nothing but __exit__ follows it.
Budget(s) == IF s = "shared" THEN MaxOps - 1 ELSE MaxOps
Idle == exited = {} /\ ops < Budget(shape) /\ last.st = "ok"

Started(op, n, key, val) ==
    [op |-> op, n |-> n, key |-> key, val |-> val, res |-> 0,
     st |-> "ok", exc |-> "", wasCopy |-> nodes[n].is_copy, copied |-> {}]

\* The nodes the handler made copies.
Copied(st) == {m \in NodeIds : st.nodes[m].is_copy /\ ~nodes[m].is_copy}

\* The handler ended in state st: the program state it leaves, and whether
\* it returned or raised.
Ends(st, op) ==
    /\ heap' = st.heap
    /\ nodes' = st.nodes
    /\ hist' = [st.hist EXCEPT !.raised = @ \/ st.err # ""]
    /\ last' = IF st.err = "" THEN [op EXCEPT !.copied = Copied(st)]
               ELSE [op EXCEPT !.st = "err", !.exc = st.err, !.copied = Copied(st)]

\* A new proxy around the value w.
HistNewNode(h, w) ==
    [h EXCEPT !.copies = Append(@, 0), !.fins = Append(@, 0), !.calls = Append(@, 0),
              !.origin = Append(@, w)]

\* The caller's part of a mutation: the nodes _copy() is called on, and the
\* key written or deleted.
HistMutate(h, ns, key) ==
    [h EXCEPT !.targets = @ \cup ns, !.written = @ \cup {<<n, key>> : n \in ns},
              !.mutated = TRUE]

----------------------------------------------------------------------------
\* __getattr__

GetAttrKeys == AttrNames \cup {"finalize", "increment"}

\* `child = self._self_children.get(key)` finds the cached child.
GetAttrCached(n, key) ==
    /\ Idle /\ IsObjNode(n)
    /\ ChildGet(nodes[n].children, key) # 0
    /\ last' = [Started("getattr", n, key, NoneV) EXCEPT
                  !.res = ChildGet(nodes[n].children, key)]
    /\ ops' = ops + 1
    /\ UNCHANGED <<shape, heap, nodes, exited, hist>>

\* A read that copies: __getattr__ with a `self._copy()` before the lookup.
GetAttrNewEager(n, key) ==
    /\ Idle /\ IsObjNode(n)
    /\ ChildGet(nodes[n].children, key) = 0
    /\ HasAttr(heap, Wrapped(n).v, key)
    /\ \E ord \in Orders(nodes) :
         LET s1 == CopyNode(Here, n, ord, {})
             w == Attr(s1.heap, s1.nodes[n].wrapped.v, key)
         IN Ends([s1 EXCEPT
                    !.nodes = Append([@ EXCEPT ![n].children =
                                         ChildSet(@, key, Len(nodes) + 1)],
                                     NewNode(w, {<<n, key>>})),
                    !.hist = HistNewNode(@, w)],
                 [Started("getattr", n, key, NoneV) EXCEPT !.res = Len(nodes) + 1])
    /\ ops' = ops + 1
    /\ UNCHANGED <<shape, exited>>

\* `actual = getattr(self.__wrapped__, key); child = CopyOnWrite(actual,
\*  parent=self, key=key); self._self_children[key] = child`
GetAttrNew(n, key) ==
    /\ Idle /\ IsObjNode(n)
    /\ ChildGet(nodes[n].children, key) = 0
    /\ HasAttr(heap, Wrapped(n).v, key)
    /\ nodes' = Append([nodes EXCEPT ![n].children =
                           ChildSet(@, key, Len(nodes) + 1)],
                       NewNode(Attr(heap, Wrapped(n).v, key), {<<n, key>>}))
    /\ hist' = HistNewNode(hist, Attr(heap, Wrapped(n).v, key))
    /\ last' = [Started("getattr", n, key, NoneV) EXCEPT !.res = Len(nodes) + 1]
    /\ ops' = ops + 1
    /\ UNCHANGED <<shape, heap, exited>>

\* getattr raises AttributeError before any child is created.
GetAttrMissing(n, key) ==
    /\ Idle /\ IsObjNode(n)
    /\ ChildGet(nodes[n].children, key) = 0
    /\ ~HasAttr(heap, Wrapped(n).v, key)
    /\ last' = [Started("getattr", n, key, NoneV) EXCEPT
                  !.st = "err", !.exc = "AttributeError"]
    /\ ops' = ops + 1
    /\ UNCHANGED <<shape, heap, nodes, exited, hist>>

----------------------------------------------------------------------------
\* __setattr__ and __delattr__

\* A write without copy-on-write: setattr on the wrapped value as it is.
SetInPlace(st, n, key, val, ord) ==
    [st EXCEPT !.heap = SetSlot(@, st.nodes[n].wrapped.v, key, val)]

\* `self._copy(); setattr(self.__wrapped__, key, actual_value)`
CopyThenSet(st, n, key, val, ord) ==
    LET s1 == CopyNode(st, n, ord, {})
    IN IF s1.err # "" THEN s1
       ELSE [s1 EXCEPT !.heap = SetSlot(@, s1.nodes[n].wrapped.v, key, val)]

\* `self._copy(); delattr(self.__wrapped__, key)` (and `del self.__wrapped__[key]`)
CopyThenDel(st, n, key, ord, exc) ==
    LET s1 == CopyNode(st, n, ord, {})
    IN IF s1.err # "" THEN s1
       ELSE IF key \notin DOMAIN s1.heap[s1.nodes[n].wrapped.v].slots
            THEN [s1 EXCEPT !.err = exc]
            ELSE [s1 EXCEPT !.heap = DelSlot(@, s1.nodes[n].wrapped.v, key)]

\* value is not a proxy: `self._self_children.pop(key, None)`
SetAttr(n, key) ==
    /\ Idle /\ IsObjNode(n)
    /\ LET s0 == [Here EXCEPT !.nodes[n].children = ChildPop(@, key),
                              !.hist = HistMutate(@, {n}, key)]
       IN \E ord \in Orders(s0.nodes) :
            Ends(CopyThenSet(s0, n, key, NewValue, ord),
                 Started("setattr", n, key, NewValue))
    /\ ops' = ops + 1
    /\ UNCHANGED <<shape, exited>>

\* value is the proxy q: `actual_value = cow_value.__wrapped__;
\* self._self_children[key] = cow_value; cow_value._self_parents.add((self, key))`
SetAttrProxy(n, key, q) ==
    /\ Idle /\ IsObjNode(n)
    /\ LET s0 == [Here EXCEPT !.nodes[n].children = ChildSet(@, key, q),
                              !.nodes[q].parents = @ \cup {<<n, key>>},
                              !.hist = HistMutate(@, {n}, key)]
       IN \E ord \in Orders(s0.nodes) :
            Ends(CopyThenSet(s0, n, key, Wrapped(q), ord),
                 [Started("setattr", n, key, Wrapped(q)) EXCEPT !.res = q])
    /\ ops' = ops + 1
    /\ UNCHANGED <<shape, exited>>

\* The cached child is dropped and keeps its back-reference.
PopChildOnly(ns, n, key) == [ns EXCEPT ![n].children = ChildPop(@, key)]

\* `child = self._self_children.pop(key, None)`; a cached child loses its
\* back-reference: `child._self_parents.discard((self, key))`
PopChild(ns, n, key) ==
    LET c == ChildGet(ns[n].children, key)
        popped == [ns EXCEPT ![n].children = ChildPop(@, key)]
    IN IF c = 0 THEN popped ELSE [popped EXCEPT ![c].parents = @ \ {<<n, key>>}]

DelAttr(n, key) ==
    /\ Idle /\ IsObjNode(n)
    /\ LET s0 == [Here EXCEPT !.nodes = PopChild(@, n, key),
                              !.hist = HistMutate(@, {n}, key)]
       IN \E ord \in Orders(s0.nodes) :
            Ends(CopyThenDel(s0, n, key, ord, "AttributeError"),
                 Started("delattr", n, key, NoneV))
    /\ ops' = ops + 1
    /\ UNCHANGED <<shape, exited>>

----------------------------------------------------------------------------
\* The caller registers p as one more parent of the proxy c, for an attribute
\* of p that holds the very object c wraps (the shared object reached by
\* another path), before c is written: `child_cow = cow1.child;
\* child_cow._self_parents.add((cow2, "child"))`.
RegisterParent(c, p, key) ==
    /\ Idle /\ IsObjNode(p) /\ IsRef(c) /\ c # p
    /\ ~nodes[c].is_copy
    /\ <<p, key>> \notin nodes[c].parents
    /\ key \in DOMAIN ObjOf(p).slots
    /\ ObjOf(p).slots[key] = Wrapped(c)
    /\ nodes' = [nodes EXCEPT ![c].parents = @ \cup {<<p, key>>}]
    /\ last' = Started("register", c, key, NoneV)
    /\ ops' = ops + 1
    /\ UNCHANGED <<shape, heap, exited, hist>>

----------------------------------------------------------------------------
\* __getitem__, __setitem__, __delitem__ (the wrapped value is a mapping)

GetItemCached(n, k) ==
    /\ Idle /\ IsDictNode(n)
    /\ ChildGet(nodes[n].children, CacheKey(k)) # 0
    /\ last' = [Started("getitem", n, k, NoneV) EXCEPT
                  !.res = ChildGet(nodes[n].children, CacheKey(k))]
    /\ ops' = ops + 1
    /\ UNCHANGED <<shape, heap, nodes, exited, hist>>

\* `actual = self.__wrapped__[key]; child = CopyOnWrite(actual, parent=self,
\*  key=cache_key); self._self_children[cache_key] = child`
GetItemNew(n, k) ==
    /\ Idle /\ IsDictNode(n)
    /\ ChildGet(nodes[n].children, CacheKey(k)) = 0
    /\ k \in DOMAIN ObjOf(n).slots
    /\ nodes' = Append([nodes EXCEPT ![n].children =
                           ChildSet(@, CacheKey(k), Len(nodes) + 1)],
                       NewNode(ObjOf(n).slots[k], {<<n, CacheKey(k)>>}))
    /\ hist' = HistNewNode(hist, ObjOf(n).slots[k])
    /\ last' = [Started("getitem", n, k, NoneV) EXCEPT !.res = Len(nodes) + 1]
    /\ ops' = ops + 1
    /\ UNCHANGED <<shape, heap, exited>>

\* `self.__wrapped__[key]` raises KeyError.
GetItemMissing(n, k) ==
    /\ Idle /\ IsDictNode(n)
    /\ ChildGet(nodes[n].children, CacheKey(k)) = 0
    /\ k \notin DOMAIN ObjOf(n).slots
    /\ last' = [Started("getitem", n, k, NoneV) EXCEPT
                  !.st = "err", !.exc = "KeyError"]
    /\ ops' = ops + 1
    /\ UNCHANGED <<shape, heap, nodes, exited, hist>>

\* `self._self_children.pop(cache_key, None); self._copy();
\*  self.__wrapped__[key] = actual_value`, for a value that is not a proxy.
SetItem(n, k) ==
    /\ Idle /\ IsDictNode(n)
    /\ LET s0 == [Here EXCEPT !.nodes[n].children = ChildPop(@, CacheKey(k)),
                              !.hist = HistMutate(@, {n}, k)]
       IN \E ord \in Orders(s0.nodes) :
            Ends(CopyThenSet(s0, n, k, NewValue, ord),
                 Started("setitem", n, k, NewValue))
    /\ ops' = ops + 1
    /\ UNCHANGED <<shape, exited>>

\* The value is the proxy q: it is unwrapped, and nothing else is recorded.
SetItemProxy(n, k, q) ==
    /\ Idle /\ IsDictNode(n)
    /\ LET s0 == [Here EXCEPT !.nodes[n].children = ChildPop(@, CacheKey(k)),
                              !.hist = HistMutate(@, {n}, k)]
       IN \E ord \in Orders(s0.nodes) :
            Ends(CopyThenSet(s0, n, k, Wrapped(q), ord),
                 [Started("setitem", n, k, Wrapped(q)) EXCEPT !.res = q])
    /\ ops' = ops + 1
    /\ UNCHANGED <<shape, exited>>

DelItem(n, k) ==
    /\ Idle /\ IsDictNode(n)
    /\ LET s0 == [Here EXCEPT !.nodes = PopChild(@, n, CacheKey(k)),
                              !.hist = HistMutate(@, {n}, k)]
       IN \E ord \in Orders(s0.nodes) :
            Ends(CopyThenDel(s0, n, k, ord, "KeyError"),
                 Started("delitem", n, k, NoneV))
    /\ ops' = ops + 1
    /\ UNCHANGED <<shape, exited>>

----------------------------------------------------------------------------
\* __call__ (the wrapped value is a bound method)

\* `for parent, key in self._self_parents:
\*      if key == "finalize": parent._self_is_finalized = True`
RECURSIVE MarkFinalized(_, _)
MarkFinalized(ns, ps) ==
    IF ps = {} THEN ns
    ELSE LET pr == CHOOSE x \in ps : TRUE
             rest == MarkFinalized(ns, ps \ {pr})
         IN IF pr[2] = "finalize"
            THEN [rest EXCEPT ![pr[1]].is_finalized = TRUE] ELSE rest

\* The caller's part of a call: the parents are the nodes _copy() is called
\* on, and a call of finalize through the proxy is counted.
RECURSIVE CountCalls(_, _)
CountCalls(calls, ps) ==
    IF ps = {} THEN calls
    ELSE LET pr == CHOOSE x \in ps : TRUE
             rest == CountCalls(calls, ps \ {pr})
         IN IF pr[2] = "finalize" THEN [rest EXCEPT ![pr[1]] = @ + 1] ELSE rest

HistCall(h, ps) ==
    [HistMutate(h, {pr[1] : pr \in ps}, "") EXCEPT !.calls = CountCalls(@, ps)]

\* `result = method(*args, **kwargs); return CopyOnWrite(result)`, for the
\* bound method finalize of the object recv; p is the proxy it was fetched from.
Invoke(st, p, recv) ==
    [st EXCEPT
       !.heap = Append(@, Finalized(st.heap[recv])),
       !.nodes = Append(@, NewNode(Ref(Len(st.heap) + 1), {})),
       !.hist = [HistNewNode(@, Ref(Len(st.heap) + 1)) EXCEPT
                   !.fins[p] = IF st.nodes[p].wrapped = Ref(recv) THEN @ + 1 ELSE @]]

\* The same for the bound method increment of the object recv, which does
\* `self.b += 1; return self.b`.
InvokeIncrement(st, recv) ==
    IF "b" \notin DOMAIN st.heap[recv].slots THEN [st EXCEPT !.err = "AttributeError"]
    ELSE IF st.heap[recv].slots["b"].t # "int" THEN [st EXCEPT !.err = "TypeError"]
    ELSE LET new == IntV(st.heap[recv].slots["b"].v + 1) IN
         [st EXCEPT !.heap = SetSlot(@, recv, "b", new),
                    !.nodes = Append(@, NewNode(new, {})),
                    !.hist = [HistNewNode(@, new) EXCEPT
                                !.written = @ \cup
                                   {<<m, "b">> : m \in {x \in 1..Len(st.nodes) :
                                        st.nodes[x].wrapped = Ref(recv)}}]]

\* `for parent, _ in self._self_parents: parent._copy()`, then
\* `method = getattr(parent.__wrapped__, key)` for the pair the iteration
\* yields first, `if not callable(method): raise TypeError`, and the call.
CallMethod(st, n, first, ord) ==
    LET ps == <<first>> \o InOrder(st.nodes[n].parents \ {first}, ord)
        s1 == CopyParents(st, ps, 1, ord, {})
        o == s1.nodes[first[1]].wrapped.v
    IN IF s1.err # "" THEN s1
       ELSE IF ~HasAttr(s1.heap, o, first[2]) THEN [s1 EXCEPT !.err = "AttributeError"]
       ELSE IF Attr(s1.heap, o, first[2]).t = "meth"
            THEN Invoke(s1, first[1], Attr(s1.heap, o, first[2]).v)
       ELSE IF Attr(s1.heap, o, first[2]).t = "incr"
            THEN InvokeIncrement(s1, Attr(s1.heap, o, first[2]).v)
       ELSE [s1 EXCEPT !.err = "TypeError"]

Call(n) ==
    /\ Idle /\ Wrapped(n).t \in {"meth", "incr"}
    /\ LET s0 == [Here EXCEPT !.nodes = MarkFinalized(@, nodes[n].parents),
                              !.hist = HistCall(@, nodes[n].parents)]
       IN \E first \in nodes[n].parents, ord \in Orders(s0.nodes) :
            Ends(CallMethod(s0, n, first, ord),
                 [Started("call", n, "", NoneV) EXCEPT !.res = Len(nodes) + 1])
    /\ ops' = ops + 1
    /\ UNCHANGED <<shape, exited>>

----------------------------------------------------------------------------
\* __exit__

RECURSIVE ExitNode(_, _, _, _)
RECURSIVE ExitChildren(_, _, _, _, _)

\* `finalize_fn = getattr(self.__wrapped__, "finalize", None)`
\* `if not self._self_is_finalized and callable(finalize_fn):`
WantsFinalize(st, n) ==
    /\ ~st.nodes[n].is_finalized
    /\ st.nodes[n].wrapped.t = "ref"
    /\ HasAttr(st.heap, st.nodes[n].wrapped.v, "finalize")

\* `finalized = finalize_fn()`
FinalizeSelf(st, n) ==
    [st EXCEPT !.heap = Append(@, Finalized(st.heap[st.nodes[n].wrapped.v])),
               !.hist.fins[n] = @ + 1,
               !.hist.log = Append(@, <<"finalize", n>>)]

\* `for child in self._self_children.values(): child.__exit__(...)`
ExitChildren(st, ch, i, ord, active) ==
    IF i > Len(ch) \/ st.err # "" THEN st
    ELSE ExitChildren(ExitNode(st, ch[i][2], ord, active), ch, i + 1, ord, active)

\* __exit__ in pre-order: finalize and install first, the children after.
ExitPreOrder(st, n, ord, active) ==
    LET s1 == IF WantsFinalize(st, n)
              THEN Repoint(FinalizeSelf(st, n), InOrder(st.nodes[n].parents, ord), 1,
                           Ref(Len(st.heap) + 1))
              ELSE st
    IN IF s1.err # "" THEN s1
       ELSE ExitChildren(s1, s1.nodes[n].children, 1, ord, active \cup {n})

\* The children's exit, then finalize and installing its result in the
\* parents.  `active` holds the nodes whose __exit__ is running: a child
\* that is one of them (a grafted ancestor) makes the recursion endless and
\* Python raises RecursionError.
ExitOrder(st, n, ord, active) ==
    LET s1 == ExitChildren(st, st.nodes[n].children, 1, ord, active \cup {n})
    IN IF s1.err # "" THEN s1
       ELSE IF WantsFinalize(s1, n)
            THEN Repoint(FinalizeSelf(s1, n), InOrder(s1.nodes[n].parents, ord), 1,
                         Ref(Len(s1.heap) + 1))
            ELSE s1

ExitNode(st, n, ord, active) ==
    IF n \in active THEN [st EXCEPT !.err = "RecursionError"]
    ELSE LET s2 == ExitOrder([st EXCEPT !.hist.log = Append(@, <<"enter", n>>)],
                             n, ord, active)
         IN IF s2.err # "" THEN s2
            ELSE [s2 EXCEPT !.hist.log = Append(@, <<"exited", n>>)]

\* The with statement leaves the session: the context managers exit in the
\* reverse of the order they were entered.
Exit(r) ==
    /\ r \in Roots(shape) \ exited
    /\ \A r2 \in Roots(shape) \ exited : r2 <= r
    /\ \E ord \in Orders(nodes) :
         Ends(ExitNode([Here EXCEPT !.hist.mutated = TRUE], r, ord, {}),
              Started("exit", r, "", NoneV))
    /\ exited' = exited \cup {r}
    /\ UNCHANGED <<shape, ops>>

----------------------------------------------------------------------------

Next ==
    \/ \E n \in NodeIds, key \in GetAttrKeys : GetAttrCached(n, key) /\ UNCHANGED notProxy
    \/ \E n \in NodeIds, key \in GetAttrKeys : GetAttrNew(n, key) /\ UNCHANGED notProxy
    \/ \E n \in NodeIds, key \in GetAttrKeys : GetAttrMissing(n, key) /\ UNCHANGED notProxy
    \/ \E n \in NodeIds, key \in AttrNames : SetAttr(n, key) /\ UNCHANGED notProxy
    \/ \E n \in NodeIds, key \in AttrNames, q \in NodeIds : SetAttrProxy(n, key, q) /\ UNCHANGED notProxy
    \/ \E n \in NodeIds, key \in AttrNames : DelAttr(n, key) /\ UNCHANGED notProxy
    \/ \E c \in NodeIds, p \in NodeIds, key \in AttrNames : RegisterParent(c, p, key) /\ UNCHANGED notProxy
    \/ \E n \in NodeIds, k \in ItemKeys : GetItemCached(n, k) /\ UNCHANGED notProxy
    \/ \E n \in NodeIds, k \in ItemKeys : GetItemNew(n, k) /\ UNCHANGED notProxy
    \/ \E n \in NodeIds, k \in ItemKeys : GetItemMissing(n, k) /\ UNCHANGED notProxy
    \/ \E n \in NodeIds, k \in ItemKeys : SetItem(n, k) /\ UNCHANGED notProxy
    \/ \E n \in NodeIds, k \in ItemKeys, q \in NodeIds : SetItemProxy(n, k, q) /\ UNCHANGED notProxy
    \/ \E n \in NodeIds, k \in ItemKeys : DelItem(n, k) /\ UNCHANGED notProxy
    \/ \E n \in NodeIds : Call(n) /\ UNCHANGED notProxy
    \/ \E r \in NodeIds : Exit(r) /\ UNCHANGED notProxy

Spec == Init /\ [][Next]_vars

----------------------------------------------------------------------------
\* Vocabulary of the properties.

\* The object graph as it was handed to the root proxies.
Original == ShapeHeap(shape)
OriginalIds == 1..Len(Original)
\* The value the root proxy r hands out: r.unwrap.
Unwrap(r) == heap[Wrapped(r).v]
\* The last operation was a mutation through the proxy and it returned.
Returned(opnames) == last.op \in opnames /\ last.st = "ok"
Closed == exited = Roots(shape)

----------------------------------------------------------------------------
\* C1: no sequence of proxy operations, session exit included, modifies an
\* object of the original graph: every original object keeps its attributes
\* and items, referring to the same objects.
C1_OriginalUntouched == \A o \in OriginalIds : heap[o] = Original[o]

----------------------------------------------------------------------------
\* C2: the write proxy.k1.k2 = v through an attribute chain leaves the
\* original root and the original root.k1 as they were (root.k1 is still the
\* same object, with its old k2), and afterwards the root proxy's current
\* value has k1.k2 = v.
C2_Chain(r, k1) ==
    /\ Returned({"setattr"})
    /\ exited = {}
    /\ last.n # r
    /\ ChildGet(nodes[r].children, k1) = last.n

C2_WriteStep ==
    \A r \in Roots(shape), k1 \in AttrNames :
       (ops' = ops + 1 /\ C2_Chain(r, k1)') =>
         /\ heap'[r] = heap[r]
         /\ (k1 \in DOMAIN heap[r].slots /\ heap[r].slots[k1].t = "ref") =>
              heap'[heap[r].slots[k1].v] = heap[heap[r].slots[k1].v]
         /\ k1 \in DOMAIN Unwrap(r)'.slots
         /\ Unwrap(r)'.slots[k1].t = "ref"
         /\ heap'[Unwrap(r)'.slots[k1].v].slots[last'.key] = last'.val

----------------------------------------------------------------------------
\* C3: reads copy nothing and mutate nothing.  While the session has only
\* read, no node is a copy, every node wraps the object of the original
\* graph it was read from and the heap is the original graph; and a read
\* made at any time leaves the heap and every existing proxy as they were.
C3_OnlyReads ==
    ~hist.mutated =>
      /\ heap = Original
      /\ \A n \in NodeIds :
           /\ ~nodes[n].is_copy /\ hist.copies[n] = 0
           /\ nodes[n].wrapped = hist.origin[n]
           /\ \A pr \in nodes[n].parents :
                nodes[n].wrapped =
                  IF pr[2] = CacheKey("k") THEN Original[Wrapped(pr[1]).v].slots["k"]
                  ELSE Attr(Original, Wrapped(pr[1]).v, pr[2])

C3_ReadStep ==
    (ops' = ops + 1 /\ last'.op \in {"getattr", "getitem"}) =>
      /\ heap' = heap
      /\ hist'.copies = hist.copies \/ hist'.copies = Append(hist.copies, 0)
      /\ \A n \in NodeIds :
           /\ nodes'[n].wrapped = nodes[n].wrapped
           /\ nodes'[n].is_copy = nodes[n].is_copy
           /\ nodes'[n].parents = nodes[n].parents

C3_ReadTransparency == []C3_OnlyReads /\ [][C3_ReadStep]_vars

\* Two chained reads (root.a, then root.a.a) in a session that only read.
C3_Witness ==
    /\ ~hist.mutated /\ last.op = "getattr" /\ last.st = "ok"
    /\ last.n \notin Roots(shape) /\ last.res = Len(nodes)

----------------------------------------------------------------------------
\* C4: a node shallow-copies its wrapped value at most once.  The number of
\* copies a node has made is 1 when is_copy is set and 0 otherwise; after any
\* number of returned writes to a node that number is exactly 1; a write to
\* a node that is a copy already copies nothing and keeps the wrapped value;
\* and is_copy never goes back to false.
Writes == {"setattr", "delattr", "setitem", "delitem"}

C4_Counts ==
    /\ \A n \in NodeIds : hist.copies[n] = IF nodes[n].is_copy THEN 1 ELSE 0
    /\ Returned(Writes) => hist.copies[last.n] = 1

C4_Step ==
    /\ \A n \in NodeIds : nodes[n].is_copy => nodes'[n].is_copy
    /\ \A n \in NodeIds :
         (ops' = ops + 1 /\ last'.op \in Writes /\ last'.n = n /\ nodes[n].is_copy) =>
           /\ nodes'[n].wrapped = nodes[n].wrapped
           /\ hist'.copies = hist.copies
           /\ Len(heap') = Len(heap)

C4_CopyAtMostOnce == []C4_Counts /\ [][C4_Step]_vars

\* A second write to the same node has returned, and the node has copied once.
C4_Witness ==
    /\ Returned(Writes) /\ last.wasCopy
    /\ last.n \in hist.targets /\ hist.copies[last.n] = 1
    /\ ~hist.raised

----------------------------------------------------------------------------
\* C5: a write copies the written node and its ancestors, and nothing else.
\* Only nodes on the ancestor chain of a written node are copies; when every
\* operation has returned, all of that chain is copied; no write or delete
\* touches an original object; and until the session exits a copied node
\* still holds, under every key that was neither written nor re-pointed to a
\* copied child, the value the original object held there (the sibling
\* subtrees).
Up(S) == S \cup {pr[1] : pr \in UNION {nodes[n].parents : n \in S}}

RECURSIVE AncestorsOrSelf(_)
AncestorsOrSelf(S) == IF Up(S) = S THEN S ELSE AncestorsOrSelf(Up(S))

\* Some copied child is registered under key `key` of node n.
RepointedAt(n, key) ==
    \E c \in NodeIds :
       /\ nodes[c].is_copy
       /\ <<n, key>> \in nodes[c].parents \/ <<n, CacheKey(key)>> \in nodes[c].parents

C5_Chain ==
    /\ \A n \in NodeIds : nodes[n].is_copy => n \in AncestorsOrSelf(hist.targets)
    /\ ~hist.raised => \A n \in AncestorsOrSelf(hist.targets) : nodes[n].is_copy
    /\ exited = {} =>
         \A n \in NodeIds :
            (nodes[n].is_copy /\ hist.origin[n].t = "ref"
               /\ hist.origin[n].v \in OriginalIds) =>
              \A key \in DOMAIN Original[hist.origin[n].v].slots :
                 (<<n, key>> \notin hist.written /\ ~RepointedAt(n, key)) =>
                   /\ key \in DOMAIN heap[Wrapped(n).v].slots
                   /\ heap[Wrapped(n).v].slots[key] =
                        Original[hist.origin[n].v].slots[key]

C5_WriteFrame ==
    (ops' = ops + 1 /\ last'.op \in Writes) =>
      \A o \in OriginalIds : heap'[o] = heap[o]

C5_AncestorChainOnly == []C5_Chain /\ [][C5_WriteFrame]_vars

\* root.a.a.b = 1 has returned while the sibling root.b has a proxy too.
C5_Witness ==
    /\ shape = "chain" /\ Returned({"setattr"}) /\ exited = {}
    /\ hist.targets = {last.n}
    /\ \E p, sib \in NodeIds :
         /\ nodes[last.n].parents = {<<p, "a">>}
         /\ nodes[p].parents = {<<1, "a">>}
         /\ nodes[sib].parents = {<<1, "b">>}
         /\ nodes[1].is_copy /\ nodes[p].is_copy /\ nodes[last.n].is_copy
         /\ ~nodes[sib].is_copy
         /\ Unwrap(1).slots["b"] = Original[1].slots["b"]
         /\ heap[Unwrap(1).slots["a"].v].slots["b"] = Original[2].slots["b"]

----------------------------------------------------------------------------
\* C6: the same object is the attribute a of two independent roots, and it
\* is mutated through a proxy read from one of them.  The proxy is
\* registered under the root it was read from, and under the other root only
\* when it was assigned into it or registered with it.

\* The first write to a proxy of the shared object has returned.
C6_Mutated ==
    /\ shape = "shared" /\ Returned({"setattr"}) /\ exited = {}
    /\ hist.origin[last.n] = Original[1].slots["a"]
    /\ ~last.wasCopy

\* C6 as stated: the mutation copies both roots and makes both roots'
\* references point to the new object; the shared original is not mutated.
C6_BothRootsCopied ==
    C6_Mutated =>
      /\ heap[Original[1].slots["a"].v] = Original[Original[1].slots["a"].v]
      /\ \A r \in Roots(shape) :
           /\ nodes[r].is_copy
           /\ "a" \in DOMAIN Unwrap(r).slots
           /\ Unwrap(r).slots["a"] = Wrapped(last.n)

\* C6 as the code has it: the roots the mutated node is registered under
\* (its access path, and every root it was assigned into) are copied and
\* refer to the new object; a root that is no ancestor of any written node
\* is not copied and keeps referring to the shared original, which is not
\* mutated.
C6_RegisteredRootsOnly ==
    C6_Mutated =>
      /\ heap[Original[1].slots["a"].v] = Original[Original[1].slots["a"].v]
      /\ \A r \in Roots(shape) :
           /\ \A key \in AttrNames :
                <<r, key>> \in nodes[last.n].parents =>
                  /\ nodes[r].is_copy
                  /\ key \in DOMAIN Unwrap(r).slots
                  /\ Unwrap(r).slots[key] = Wrapped(last.n)
           /\ r \notin AncestorsOrSelf(hist.targets) =>
                /\ ~nodes[r].is_copy
                /\ Wrapped(r) = hist.origin[r]
                /\ Unwrap(r) = Original[r]

\* The node read from one root was registered with the other root too, and
\* then written.
C6_Witness ==
    /\ C6_Mutated
    /\ last.copied = {1, 2, last.n}
    /\ nodes[last.n].parents = {<<1, "a">>, <<2, "a">>}
    /\ nodes[1].is_copy /\ nodes[2].is_copy
    /\ Unwrap(1).slots["a"] = Wrapped(last.n)
    /\ Unwrap(2).slots["a"] = Wrapped(last.n)
    /\ Wrapped(last.n) # hist.origin[last.n]

----------------------------------------------------------------------------
\* C7: the first mutation of a node registered under several (parent, key)
\* pairs makes every one of those parents a copy and sets attribute key of
\* each parent's current value to the node's one new copy, which carries
\* the mutation; the object the node was created around is unchanged.
C7_FirstMutation ==
    /\ Returned(Writes) /\ ~last.wasCopy /\ exited = {}
    /\ Cardinality(nodes[last.n].parents) >= 2

C7_AllParentsRepointed ==
    C7_FirstMutation =>
      /\ nodes[last.n].is_copy /\ hist.copies[last.n] = 1
      /\ Wrapped(last.n) # hist.origin[last.n]
      /\ \A pr \in nodes[last.n].parents :
           /\ nodes[pr[1]].is_copy
           /\ pr[2] \in DOMAIN heap[Wrapped(pr[1]).v].slots
           /\ heap[Wrapped(pr[1]).v].slots[pr[2]] = Wrapped(last.n)
      /\ last.op = "setattr" => ObjOf(last.n).slots[last.key] = last.val
      /\ last.op = "delattr" => last.key \notin DOMAIN ObjOf(last.n).slots
      /\ hist.origin[last.n].v \in OriginalIds =>
           heap[hist.origin[last.n].v] = Original[hist.origin[last.n].v]

\* A node registered under two parents, neither of them a copy yet, has been
\* written for the first time.
C7_Witness ==
    /\ C7_FirstMutation /\ last.op = "setattr"
    /\ \E p, q \in NodeIds : \E k1, k2 \in AttrNames :
         /\ p # q
         /\ {p, q, last.n} \subseteq last.copied
         /\ {<<p, k1>>, <<q, k2>>} \subseteq nodes[last.n].parents
         /\ heap[Wrapped(p).v].slots[k1] = Wrapped(last.n)
         /\ heap[Wrapped(q).v].slots[k2] = Wrapped(last.n)
    /\ ObjOf(last.n).slots[last.key] = NewValue

----------------------------------------------------------------------------
\* What the exit of the session logged.
InLog(e) == \E i \in 1..Len(hist.log) : hist.log[i] = e
ChildrenOf(n) == {nodes[n].children[i][2] : i \in 1..Len(nodes[n].children)}

\* C8: when the session has exited without an exception, the finalize of
\* every node the exit went through whose wrapped value has finalize, and
\* which the caller called finalize on at most once, has run exactly once.
C8_FinalizeOnce ==
    (Closed /\ ~hist.raised) =>
      \A n \in NodeIds :
         (InLog(<<"exited", n>>) /\ IsRef(n) /\ ObjOf(n).hasFin /\ hist.calls[n] <= 1) =>
           hist.fins[n] = 1

----------------------------------------------------------------------------
\* C9: exit is post-order.  Whenever a node's finalize is invoked, the exit
\* of every child cached under it has completed since the node's own exit
\* began, and every finalize of that child in between came before it.
LastEnter(n, i) ==
    CHOOSE e \in 1..i : /\ hist.log[e] = <<"enter", n>>
                        /\ \A f \in (e + 1)..i : hist.log[f] # <<"enter", n>>

C9_PostOrder ==
    \A i \in 1..Len(hist.log) :
       hist.log[i][1] = "finalize" =>
         /\ \E e \in 1..i : hist.log[e] = <<"enter", hist.log[i][2]>>
         /\ \A c \in ChildrenOf(hist.log[i][2]) :
              /\ \E j \in LastEnter(hist.log[i][2], i)..i : hist.log[j] = <<"exited", c>>
              /\ \A f \in LastEnter(hist.log[i][2], i)..i :
                   hist.log[f] = <<"finalize", c>> =>
                     \E j \in f..i : hist.log[j] = <<"exited", c>>

\* A child with finalize and its parent were both finalized by the exit.
C9_Witness ==
    /\ Closed /\ ~hist.raised
    /\ \E i, j \in 1..Len(hist.log) :
         /\ i < j
         /\ hist.log[i][1] = "finalize" /\ hist.log[j][1] = "finalize"
         /\ hist.log[i][2] \in ChildrenOf(hist.log[j][2])

----------------------------------------------------------------------------
\* C10: once a node has been finalized by the exit, every registered parent
\* holds the finalized value, not the pre-finalize one, at the node's access
\* key: the attribute for an attribute child, the mapping key for an item
\* child.
AccessKey(key) == IF \E k \in ItemKeys : key = CacheKey(k)
                  THEN CHOOSE k \in ItemKeys : key = CacheKey(k) ELSE key

C10_FinalizedInstalled ==
    last.op = "exit" =>
      \A n \in NodeIds :
         InLog(<<"finalize", n>>) =>
           \A pr \in nodes[n].parents :
              /\ AccessKey(pr[2]) \in DOMAIN heap[Wrapped(pr[1]).v].slots
              /\ heap[Wrapped(pr[1]).v].slots[AccessKey(pr[2])].t = "ref"
              /\ heap[Wrapped(pr[1]).v].slots[AccessKey(pr[2])] # Wrapped(n)
              /\ heap[heap[Wrapped(pr[1]).v].slots[AccessKey(pr[2])].v].fin

----------------------------------------------------------------------------
\* C11: a delete through the proxy that returns (del proxy.k, del proxy[k])
\* leaves the node and all its ancestors copies, the key gone from the
\* node's current value, every original object as it was (the object the
\* node was created around keeps k), no child cached at k, and the child
\* that was cached at k without (node, k) in its parent set.
Deletes == {"delattr", "delitem"}
KeyOfDelete(op) == IF op.op = "delitem" THEN CacheKey(op.key) ELSE op.key

C11_DeleteStep ==
    (ops' = ops + 1 /\ last'.op \in Deletes /\ last'.st = "ok") =>
      /\ nodes'[last'.n].is_copy
      /\ \A m \in NodeIds :
           (\E pr \in nodes'[last'.n].parents : pr[1] = m) => nodes'[m].is_copy
      /\ last'.key \notin DOMAIN heap'[nodes'[last'.n].wrapped.v].slots
      /\ last'.key \in DOMAIN heap[nodes[last'.n].wrapped.v].slots
      /\ \A o \in OriginalIds : heap'[o] = heap[o]
      /\ ~nodes[last'.n].is_copy => heap'[nodes[last'.n].wrapped.v] = heap[nodes[last'.n].wrapped.v]
      /\ ChildGet(nodes'[last'.n].children, KeyOfDelete(last')) = 0
      /\ ChildGet(nodes[last'.n].children, KeyOfDelete(last')) # 0 =>
           <<last'.n, KeyOfDelete(last')>> \notin
              nodes'[ChildGet(nodes[last'.n].children, KeyOfDelete(last'))].parents

C11_DeleteLikeWrite == [][C11_DeleteStep]_vars

\* del root.a has returned after root.a was read: the child proxy has lost
\* its parent, the root's copy has no a, the original root has.
C11_Witness ==
    /\ shape = "chain" /\ Returned({"delattr"}) /\ last.n = 1 /\ last.key = "a"
    /\ ~last.wasCopy /\ nodes[1].is_copy
    /\ "a" \notin DOMAIN Unwrap(1).slots
    /\ "a" \in DOMAIN heap[1].slots
    /\ ChildGet(nodes[1].children, "a") = 0
    /\ \E c \in NodeIds \ {1} :
         hist.origin[c] = Original[1].slots["a"] /\ nodes[c].parents = {}

----------------------------------------------------------------------------
\* C12: a call through the proxy that returns has copied the receiver (the
\* node the method proxy was read from) and all its ancestors, has left
\* every original object unchanged, shows the method's mutation in the
\* receiver's current value (for increment: its b is the returned count),
\* and returns a new proxy with no parents.
Receivers(m) == {pr[1] : pr \in {x \in nodes[m].parents : x[2] \in {"finalize", "increment"}}}

C12_CallStep ==
    (ops' = ops + 1 /\ last'.op = "call" /\ last'.st = "ok") =>
      /\ \A m \in AncestorsOrSelf(ParentNodes(nodes, last'.n)) : nodes'[m].is_copy
      /\ \A o \in OriginalIds : heap'[o] = heap[o]
      /\ Wrapped(last'.n).t = "incr" =>
           \A p \in Receivers(last'.n) :
              /\ "b" \in DOMAIN heap'[nodes'[p].wrapped.v].slots
              /\ heap'[nodes'[p].wrapped.v].slots["b"] = nodes'[last'.res].wrapped
      /\ Len(nodes') = Len(nodes) + 1 /\ last'.res = Len(nodes')
      /\ nodes'[last'.res].parents = {}

C12_CallOnCopy == [][C12_CallStep]_vars

----------------------------------------------------------------------------
\* C22: after every proxy operation (read, write, delete, call, graft of a
\* proxy value), every node in the parent set of a node whose is_copy is true
\* has is_copy true as well.
C22_CopiedParents ==
    \A n \in NodeIds :
       nodes[n].is_copy => \A pr \in nodes[n].parents : nodes[pr[1]].is_copy

\* A proxy that was a copy already has been grafted into a node that was not:
\* the graft gave the copy a new parent and copied that parent.
C22_Witness ==
    /\ Returned({"setattr"}) /\ exited = {}
    /\ last.res # 0 /\ last.res # last.n
    /\ nodes[last.res].is_copy /\ last.res \notin last.copied
    /\ ~last.wasCopy /\ last.n \in last.copied
    /\ <<last.n, last.key>> \in nodes[last.res].parents

----------------------------------------------------------------------------
\* What the value a node wraps holds now at the key a child is cached under
\* (the attribute for an attribute child, the mapping key for an item
\* child); NoneV when it holds nothing there.
Current(n, key) ==
    IF AccessKey(key) \in DOMAIN ObjOf(n).slots
    THEN ObjOf(n).slots[AccessKey(key)] ELSE NoneV

\* The cached children that wrap data (a bound method is a new object at
\* every getattr, so a cached method child is left out of the comparison).
DataChildren(n) ==
    {e \in {nodes[n].children[i] : i \in 1..Len(nodes[n].children)} :
        e[1] \notin {"finalize", "increment"}}

InSync == \A n \in NodeIds : \A e \in DataChildren(n) : Wrapped(e[2]) = Current(n, e[1])

\* C23: after every copy or mutation made through the proxy that returns
\* (write, delete, method call), every child cached at key k of a node wraps
\* the very object stored at attribute or mapping key k of the node's current
\* wrapped value: no cached child is stale.
C23_NoStaleChild == (Returned(Writes \cup {"call"}) /\ exited = {}) => InSync

----------------------------------------------------------------------------
\* The (parent, key) pairs under which a node is registered as an item child.
IsItemKey(key) == \E k \in ItemKeys : key = CacheKey(k)
ItemParents(n) == {pr \in nodes[n].parents : IsItemKey(pr[2])}

\* C24: when a node reached by item access (proxy[k]) is written for the
\* first time, the write returns, the node is a copy, the current value of
\* the parent container holds that copy at mapping key k, the copy carries
\* the write, and no original object has changed.
C24_ItemRepointed ==
    (last.op \in Writes /\ ~last.wasCopy /\ ItemParents(last.n) # {}) =>
      /\ last.st = "ok"
      /\ nodes[last.n].is_copy
      /\ \A pr \in ItemParents(last.n) :
           /\ AccessKey(pr[2]) \in DOMAIN heap[Wrapped(pr[1]).v].slots
           /\ heap[Wrapped(pr[1]).v].slots[AccessKey(pr[2])] = Wrapped(last.n)
      /\ last.op \in {"setattr", "setitem"} => Current(last.n, last.key) = last.val
      /\ \A o \in OriginalIds : heap[o] = Original[o]

----------------------------------------------------------------------------
\* The key under which a write registers: the attribute name, or the cache
\* key of the item.
KeyOfWrite(op) == IF op.op = "setitem" THEN CacheKey(op.key) ELSE op.key

\* The proxy q = last.res has been written at key k of node p = last.n.
Grafted(opnames) == Returned(opnames) /\ last.res # 0 /\ exited = {}

\* What a graft has to leave behind: the underlying value of q (a proxy is
\* never a value of the heap) at key k of p's current value, and p registered
\* with q under k, by the item key or by its cache key.
GraftDone ==
    /\ Current(last.n, last.key) = Wrapped(last.res)
    /\ \/ <<last.n, last.key>> \in nodes[last.res].parents
       \/ <<last.n, KeyOfWrite(last)>> \in nodes[last.res].parents

\* C25: writing a proxy q at key k of node p, by attribute (p.k = q) or by
\* item (p[k] = q), stores q's underlying value and registers (p, k) in q's
\* parent set.
C25_GraftRegisters == Grafted({"setattr", "setitem"}) => GraftDone

\* C25 for the write by attribute alone, where it holds.
C25_AttributeGraft == Grafted({"setattr"}) => GraftDone

----------------------------------------------------------------------------
\* Key k of node p holds the value of a direct assignment p.k = v: the pair
\* was written, the value is there, and no child is cached at k.
DirectlyAssigned(p, key) ==
    /\ IsObjNode(p)
    /\ <<p, key>> \in hist.written
    /\ key \in DOMAIN ObjOf(p).slots
    /\ ObjOf(p).slots[key] = NewValue
    /\ ChildGet(nodes[p].children, key) = 0

\* C28: after a direct (non-proxy) assignment p.k = v, a write or delete
\* made through any other node, the child proxy obtained earlier from p.k
\* among them, leaves p's current value at k equal to v.
C28_DetachStep ==
    \A p \in NodeIds, key \in AttrNames :
       (/\ ops' = ops + 1 /\ last'.op \in Writes /\ last'.st = "ok"
        /\ last'.n # p
        /\ DirectlyAssigned(p, key)) =>
          /\ key \in DOMAIN heap'[nodes'[p].wrapped.v].slots
          /\ heap'[nodes'[p].wrapped.v].slots[key] = NewValue

C28_ReplacedChildDetached == [][C28_DetachStep]_vars

----------------------------------------------------------------------------
\* C29: the copy propagation of a write, delete or call comes to an end on
\* every parent graph the proxy operations build, the graft of a proxy into
\* one of its own descendants (p.a.b = p) included: none of them ends in the
\* RecursionError of an endless chain of _copy() calls.
C29_CopyTerminates ==
    last.op \in Writes \cup {"call"} => last.exc # "RecursionError"

----------------------------------------------------------------------------
(***************************************************************************)
(* configgle/traverse.py: recursively_iterate_over_object_descendants.     *)
(*                                                                         *)
(* The value traversed is a small heap of containers (lists and dicts)     *)
(* whose items are containers or small integers; an item IS its identity,  *)
(* as id() of a container or of a small int is.  The function is a         *)
(* generator: walk.stack holds its nested calls, and each action runs the  *)
(* call on top up to its yield, to its next recursive call or to its end.  *)
(***************************************************************************)

\* The most items the containers of a value hold together.
MaxEdges == 3

Boxes == {1, 2}
Ints == {1, 2}
Items == {Ref(b) : b \in Boxes} \cup {IntV(i) : i \in Ints}
Kinds == {"seq", "map"}
\* The keys of a dict, in the order they were inserted.
MapKeys == <<"a", "b", "c", "d", "e">>

\* Path segments: the index enumerate() gives, or a mapping key.
Idx(i) == [t |-> "idx", i |-> i, k |-> ""]
Key(k) == [t |-> "key", i |-> 0, k |-> k]

Root == Ref(1)

KidLists == UNION {[1..n -> Items] : n \in 0..MaxEdges}
Values ==
    {g \in [Boxes -> [kind : Kinds, kids : KidLists]] :
        /\ Len(g[1].kids) + Len(g[2].kids) <= MaxEdges
        \* an object the root cannot reach is no part of the value
        /\ (\A i \in 1..Len(g[1].kids) : g[1].kids[i] # Ref(2))
              => g[2] = [kind |-> "seq", kids |-> <<>>]}

\* The recurse predicates the caller passes: the default, a depth limit
\* (len(path) <= d), and one that rejects a single path.
Depths == {0, 1}
DenySegments == {Idx(0), Idx(1), Key("a"), Key("b")}
Predicates ==
    {[kind |-> "all"]}
        \cup {[kind |-> "depth", d |-> d] : d \in Depths}
        \cup {[kind |-> "deny", path |-> <<s>>] : s \in DenySegments}

Recurse(p, path, item) ==
    CASE p.kind = "all" -> TRUE
      [] p.kind = "depth" -> Len(path) <= p.d
      [] p.kind = "deny" -> path # p.path

\* The attribute names of this model in lexicographic order, and
\* sorted(vars(value)) of an object with the attributes attrs.
NameOrder == <<"_finalized", "a", "b", "w", "x", "y">>
RECURSIVE SortedFrom(_, _)
SortedFrom(attrs, i) ==
    IF i > Len(NameOrder) THEN <<>>
    ELSE IF NameOrder[i] \in DOMAIN attrs
         THEN <<NameOrder[i]>> \o SortedFrom(attrs, i + 1)
         ELSE SortedFrom(attrs, i + 1)
SortedNames(attrs) == SortedFrom(attrs, 1)

\* The slot names of an object in the order the loops over
\* type(value).__mro__ and over each class's __slots__ reach them: a name
\* met before and "__dict__" are passed over, and so is a slot that holds
\* nothing (getattr raises AttributeError).
RECURSIVE Concat(_)
Concat(ss) == IF ss = <<>> THEN <<>> ELSE Head(ss) \o Concat(Tail(ss))

RECURSIVE FirstOnly(_, _)
FirstOnly(s, seen_slots) ==
    IF s = <<>> THEN <<>>
    ELSE IF Head(s) \in seen_slots \/ Head(s) = "__dict__"
         THEN FirstOnly(Tail(s), seen_slots)
         ELSE <<Head(s)>> \o FirstOnly(Tail(s), seen_slots \cup {Head(s)})

SlotNames(obj) ==
    SelectSeq(FirstOnly(Concat(obj.mro), {}), LAMBDA n : n \in DOMAIN obj.slot)

\* The attribute names of an object in the order they are visited: the
\* slots, then sorted(vars(value)).
AttrOrder(obj) ==
    IF obj.kind = "slotted" THEN SlotNames(obj) \o SortedNames(obj.attrs)
    ELSE SortedNames(obj.attrs)
AttrValue(obj, name) ==
    IF obj.kind = "slotted" /\ name \in DOMAIN obj.slot THEN obj.slot[name]
    ELSE obj.attrs[name]

\* The items a value is iterated over, in the order of the iteration: the
\* items of a list, the values of a dict, the attributes of an object.
Kids(g, item) ==
    IF item.t # "ref" THEN <<>>
    ELSE IF g[item.v].kind \in {"obj", "slotted"}
    THEN [i \in 1..Len(AttrOrder(g[item.v])) |->
             AttrValue(g[item.v], AttrOrder(g[item.v])[i])]
    ELSE g[item.v].kids
\* The path segment of the i-th item iterated (i counts from 1).
Segment(g, item, i) ==
    IF g[item.v].kind = "seq" THEN Idx(i - 1)
    ELSE IF g[item.v].kind \in {"obj", "slotted"} THEN Key(AttrOrder(g[item.v])[i])
    ELSE Key(MapKeys[i])

\* A seen set that is never consulted.
NeverSeen(w, item) == FALSE
AlreadySeen(w, item) == item \in w.seen

Frame(item, path) == [item |-> item, path |-> path, i |-> 0]
Pop(w) == [w EXCEPT !.stack = SubSeq(@, 1, Len(@) - 1)]

\* A call that yields before it looks at the predicate.
EnterUnfiltered(g, p, w) ==
    LET f == w.stack[Len(w.stack)] IN
    IF AlreadySeen(w, f.item) THEN Pop(w)
    ELSE [w EXCEPT !.seen = @ \cup {f.item},
                   !.out = Append(@, <<f.path, f.item>>),
                   !.stack[Len(w.stack)].i = 1]

\* One call of the function, up to its yield: the frame on top has i = 0.
Enter(g, p, w) ==
    LET f == w.stack[Len(w.stack)] IN
    IF AlreadySeen(w, f.item) THEN Pop(w)
    ELSE IF ~Recurse(p, f.path, f.item) THEN Pop([w EXCEPT !.seen = @ \cup {f.item}])
    ELSE [w EXCEPT !.seen = @ \cup {f.item},
                   !.out = Append(@, <<f.path, f.item>>),
                   !.stack[Len(w.stack)].i = 1]

\* A loop over the items run from the last to the first.
AdvanceBackwards(g, w) ==
    LET f == w.stack[Len(w.stack)]
        n == Len(Kids(g, f.item))
    IN  IF f.i <= n
        THEN [w EXCEPT !.stack =
                 Append([@ EXCEPT ![Len(w.stack)].i = f.i + 1],
                        Frame(Kids(g, f.item)[n + 1 - f.i],
                              Append(f.path, Segment(g, f.item, n + 1 - f.i))))]
        ELSE Pop(w)

\* The frame on top after its yield: the loop over its items calls the
\* function on the next item, or the frame returns.
Advance(g, w) ==
    LET f == w.stack[Len(w.stack)] IN
    IF f.i <= Len(Kids(g, f.item))
    THEN [w EXCEPT !.stack =
             Append([@ EXCEPT ![Len(w.stack)].i = f.i + 1],
                    Frame(Kids(g, f.item)[f.i],
                          Append(f.path, Segment(g, f.item, f.i))))]
    ELSE Pop(w)

Top == walk.stack[Len(walk.stack)]
Running == walk.at = "running" /\ walk.stack # <<>>

WalkInit ==
    /\ objs \in Values
    /\ recurse \in Predicates
    /\ walk = [at |-> "none", stack |-> <<>>, seen |-> {}, out |-> <<>>]
    /\ NoSession
    /\ NoQuery
    /\ NoUpdate
    /\ NoFinalize

\* recursively_iterate_over_object_descendants(value, recurse=recurse) and
\* the consumer's first next(): the body of the call on the root is to run.
Start ==
    /\ walk.at = "none"
    /\ walk' = [walk EXCEPT !.at = "running", !.stack = <<Frame(Root, <<>>)>>]
    /\ UNCHANGED <<objs, recurse>>
    /\ UNCHANGED notWalk

\* The body of a call reaches `yield path, value`.
VisitYield ==
    /\ Running /\ Top.i = 0
    /\ Len(Enter(objs, recurse, walk).out) > Len(walk.out)
    /\ walk' = Enter(objs, recurse, walk)
    /\ UNCHANGED <<objs, recurse>>
    /\ UNCHANGED notWalk

\* The body of a call returns before its yield: the value was seen before, or
\* the predicate rejects it.
VisitSkip ==
    /\ Running /\ Top.i = 0
    /\ Len(Enter(objs, recurse, walk).out) = Len(walk.out)
    /\ walk' = Enter(objs, recurse, walk)
    /\ UNCHANGED <<objs, recurse>>
    /\ UNCHANGED notWalk

\* The loop of a call that has yielded takes its next item.
Iterate ==
    /\ Running /\ Top.i > 0 /\ Top.i <= Len(Kids(objs, Top.item))
    /\ walk' = Advance(objs, walk)
    /\ UNCHANGED <<objs, recurse>>
    /\ UNCHANGED notWalk

\* The loop of a call is over: the call returns.
Return ==
    /\ Running /\ Top.i > Len(Kids(objs, Top.item))
    /\ walk' = Advance(objs, walk)
    /\ UNCHANGED <<objs, recurse>>
    /\ UNCHANGED notWalk

\* The call on the root has returned: next() raises StopIteration.
Stop ==
    /\ walk.at = "running" /\ walk.stack = <<>>
    /\ walk' = [walk EXCEPT !.at = "done"]
    /\ UNCHANGED <<objs, recurse>>
    /\ UNCHANGED notWalk

WalkNext == Start \/ VisitYield \/ VisitSkip \/ Iterate \/ Return \/ Stop

SpecWalk == WalkInit /\ [][WalkNext]_vars
\* The consumer keeps pulling (list(...), a for loop).
FairWalk == SpecWalk /\ WF_vars(WalkNext)

----------------------------------------------------------------------------
\* Vocabulary of the traversal claims

Exhausted == walk.at = "done"
Yielded == {walk.out[j] : j \in 1..Len(walk.out)}
YieldedItems == [j \in 1..Len(walk.out) |-> walk.out[j][2]]
IsPrefix(s, t) == Len(s) <= Len(t) /\ s = SubSeq(t, 1, Len(s))

\* The position of key k in a dict (0 when the dict has no such key).
RECURSIVE KeyPos(_, _)
KeyPos(k, i) ==
    IF i > Len(MapKeys) THEN 0 ELSE IF MapKeys[i] = k THEN i ELSE KeyPos(k, i + 1)

\* value[segment]: the item one segment below a value, NoneV when there is none.
Below(g, item, seg) ==
    IF item.t # "ref" THEN NoneV
    ELSE LET c == g[item.v]
             i == IF c.kind = "seq" /\ seg.t = "idx" THEN seg.i + 1
                  ELSE IF c.kind = "map" /\ seg.t = "key" THEN KeyPos(seg.k, 1)
                  ELSE 0
         IN  IF i \in 1..Len(c.kids) THEN c.kids[i] ELSE NoneV

\* Following a path segment by segment from an item.
RECURSIVE Resolve(_, _, _)
Resolve(g, item, path) ==
    IF path = <<>> THEN item
    ELSE Resolve(g, Below(g, item, Head(path)), Tail(path))

\* A structure of distinct objects without cycles: no object is an item twice,
\* and the root is nobody's item.
Acyclic(g) ==
    LET slots == {<<b, i>> : b \in Boxes, i \in 1..MaxEdges + 1} IN
    LET used == {x \in slots : x[2] <= Len(g[x[1]].kids)} IN
    /\ \A x, y \in used : g[x[1]].kids[x[2]] = g[y[1]].kids[y[2]] => x = y
    /\ \A x \in used : g[x[1]].kids[x[2]] # Root

\* The depth-first pre-order sequence of the nodes of an acyclic structure.
RECURSIVE PreOrder(_, _)
RECURSIVE PreOrderFrom(_, _, _)
PreOrder(g, item) == <<item>> \o PreOrderFrom(g, item, 1)
PreOrderFrom(g, item, i) ==
    IF i > Len(Kids(g, item)) THEN <<>>
    ELSE PreOrder(g, Kids(g, item)[i]) \o PreOrderFrom(g, item, i + 1)

----------------------------------------------------------------------------
\* C13: with the default predicate, over an acyclic structure of distinct
\* objects, the pairs yielded so far are a prefix of the depth-first pre-order
\* sequence of the nodes and, once the generator is exhausted, the whole of
\* it; the first pair is the root with the empty path, and following the path
\* of every pair from the root reaches its value.
C13_PreOrder ==
    (recurse.kind = "all" /\ walk.at # "none" /\ Acyclic(objs)) =>
        /\ IsPrefix(YieldedItems, PreOrder(objs, Root))
        /\ Exhausted => YieldedItems = PreOrder(objs, Root)
        /\ walk.out # <<>> => walk.out[1] = <<<<>>, Root>>
        /\ \A pv \in Yielded : Resolve(objs, Root, pv[1]) = pv[2]

\* A list holding a list and an integer after it: the inner list's item is
\* yielded before the outer list's second item.
C13_Witness ==
    /\ recurse.kind = "all" /\ Acyclic(objs) /\ Exhausted
    /\ Len(walk.out) = 4
    /\ walk.out[2] = <<<<Idx(0)>>, Ref(2)>>
    /\ Len(walk.out[3][1]) = 2
    /\ walk.out[4][1] = <<Idx(1)>>

----------------------------------------------------------------------------
\* The pairs yielded whose value is an integer, in the order of the yields.
RECURSIVE IntsOnly(_)
IntsOnly(out) ==
    IF out = <<>> THEN <<>>
    ELSE IF Head(out)[2].t = "int" THEN <<Head(out)>> \o IntsOnly(Tail(out))
    ELSE IntsOnly(Tail(out))

\* data = [1, 2]; data.append(data)
SelfList == [kind |-> "seq", kids |-> <<IntV(1), IntV(2), Ref(1)>>]

\* No value is yielded twice, and no two frames iterate over the same value.
NoRevisit ==
    /\ \A i, j \in 1..Len(walk.out) : walk.out[i][2] = walk.out[j][2] => i = j
    /\ \A i, j \in 1..Len(walk.stack) :
          (walk.stack[i].i > 0 /\ walk.stack[j].i > 0
              /\ walk.stack[i].item = walk.stack[j].item) => i = j

\* C14: whatever the value (cycles included) and the predicate, a consumer
\* that keeps pulling exhausts the generator; no value is ever yielded or
\* recursed into a second time; and the list [1, 2, itself] yields, filtered
\* to integers, exactly ((0,), 1) and ((1,), 2).
C14_Terminates ==
    /\ <>Exhausted
    /\ []NoRevisit
    /\ []((Exhausted /\ recurse.kind = "all" /\ objs[1] = SelfList) =>
            IntsOnly(walk.out) = << <<<<Idx(0)>>, IntV(1)>>, <<<<Idx(1)>>, IntV(2)>> >>)

\* The self-referential list has been traversed to the end.
C14_Witness ==
    /\ Exhausted /\ recurse.kind = "all" /\ objs[1] = SelfList
    /\ Len(walk.out) = 3
    /\ Ref(1) \in walk.seen

----------------------------------------------------------------------------
Prefixes(path) == {SubSeq(path, 1, n) : n \in 0..Len(path)}

\* C15: every pair yielded satisfies the predicate, and so does every prefix
\* of its path with the value found there: nothing is yielded at or through a
\* (path, value) the predicate rejects.  With a predicate that is true for
\* the empty path only, the exhausted generator has yielded the root alone.
C15_Pruning ==
    /\ \A pv \in Yielded : \A q \in Prefixes(pv[1]) :
          Recurse(recurse, q, Resolve(objs, Root, q))
    /\ (Exhausted /\ recurse = [kind |-> "depth", d |-> 0]) =>
          walk.out = << <<<<>>, Root>> >>

\* The predicate rejected the path of a non-empty container: the container
\* was visited and not yielded, and the traversal went on to the end.
C15_Witness ==
    /\ Exhausted /\ recurse.kind = "deny"
    /\ Resolve(objs, Root, recurse.path) = Ref(2)
    /\ objs[2].kids # <<>>
    /\ Ref(2) \in walk.seen
    /\ \A pv \in Yielded : pv[2] # Ref(2)
    /\ Len(walk.out) >= 2

----------------------------------------------------------------------------
\* Several top-level traversals that share one seen set:
\* `seen = set(); list(f(v1, seen=seen)); list(f(v2, seen=seen))`.  A call is
\* made on the value or on its second container, when no generator is
\* running; walk.out keeps the pairs of all the calls, in the order yielded.
Traversal(r) ==
    /\ walk.at \in {"none", "done"}
    /\ walk' = [walk EXCEPT !.at = "running", !.stack = <<Frame(r, <<>>)>>]
    /\ UNCHANGED <<objs, recurse>>
    /\ UNCHANGED notWalk

SeenNext ==
    \/ \E b \in Boxes : Traversal(Ref(b))
    \/ VisitYield
    \/ VisitSkip
    \/ Iterate
    \/ Return
    \/ Stop

SpecSeen == WalkInit /\ [][SeenNext]_vars

\* The body of a call on a value leaves the value in seen, and a value that
\* was in seen already is neither yielded nor iterated over; seen never
\* loses a member.
C26_VisitStep ==
    /\ walk.seen \subseteq walk'.seen
    /\ (Running /\ Top.i = 0) =>
         /\ Top.item \in walk'.seen
         /\ Top.item \in walk.seen =>
              /\ walk'.out = walk.out
              /\ walk'.seen = walk.seen
              /\ walk'.stack = SubSeq(walk.stack, 1, Len(walk.stack) - 1)

\* When a traversal is over, seen holds every value yielded and every item
\* of a value yielded (the values the calls were made on).
SeenAllVisited ==
    Exhausted =>
      \A pv \in Yielded :
         /\ pv[2] \in walk.seen
         /\ \A i \in 1..Len(Kids(objs, pv[2])) : Kids(objs, pv[2])[i] \in walk.seen

\* C26: within one traversal, and across top-level traversals given the same
\* seen set, no value is yielded twice; a value whose identity is in seen is
\* skipped without being yielded or recursed into; and after a traversal
\* seen contains every value it visited.
C26_SharedSeen == []NoRevisit /\ []SeenAllVisited /\ [][C26_VisitStep]_vars

\* The second container was traversed first, then the value that holds it:
\* the second traversal yielded the root and did not yield the container again.
C26_Witness ==
    /\ Exhausted
    /\ \E i \in 1..Len(objs[1].kids) : objs[1].kids[i] = Ref(2)
    /\ objs[2].kids # <<>>
    /\ walk.out[1] = <<<<>>, Ref(2)>>
    /\ \E j \in 2..Len(walk.out) : walk.out[j] = <<<<>>, Ref(1)>>
    /\ Cardinality({j \in 1..Len(walk.out) : walk.out[j][2] = Ref(2)}) = 1

----------------------------------------------------------------------------
\* Objects with __slots__: an instance of a class Derived(Base).  mro lists
\* the __slots__ of the classes in the order of type(value).__mro__ (Derived,
\* then Base); slot holds the values of the slots that are set, attrs is the
\* instance __dict__ (empty unless a class declares the "__dict__" slot).
BaseSlots == {<<"x">>, <<"x", "__dict__">>}
DerivedSlots == {<<"y">>, <<"w">>, <<"x", "y">>}
SlotInts == {IntV(1), IntV(2), IntV(3), IntV(4)}

DeclaredSlots(mro) == {Concat(mro)[i] : i \in 1..Len(Concat(mro))} \ {"__dict__"}
PartialMaps(names) == UNION {[s -> SlotInts] : s \in SUBSET names}

SlotObjects ==
    {[kind |-> "slotted", mro |-> <<d, b>>, slot |-> sv, attrs |-> av] :
        d \in DerivedSlots, b \in BaseSlots,
        sv \in PartialMaps({"w", "x", "y"}), av \in PartialMaps({"a", "b"})}

SlotValues ==
    {[b \in Boxes |-> IF b = 1 THEN o ELSE [kind |-> "seq", kids |-> <<>>]] :
        o \in {so \in SlotObjects :
                  /\ DOMAIN so.slot \subseteq DeclaredSlots(so.mro)
                  /\ so.attrs # <<>> =>
                        \E i \in 1..Len(so.mro[2]) : so.mro[2][i] = "__dict__"}}

SlotInit ==
    /\ objs \in SlotValues
    /\ recurse \in {[kind |-> "all"], [kind |-> "depth", d |-> 0]}
    /\ walk = [at |-> "none", stack |-> <<>>, seen |-> {}, out |-> <<>>]
    /\ NoSession
    /\ NoQuery
    /\ NoUpdate
    /\ NoFinalize

SpecSlots == SlotInit /\ [][WalkNext]_vars

\* The attribute names yielded, in the order of the yields, and the place of
\* a name among them (0 when it was not yielded).
NamesYielded ==
    [j \in 1..(Len(walk.out) - 1) |-> walk.out[j + 1][1][1].k]
RECURSIVE PlaceFrom(_, _, _)
PlaceFrom(s, n, i) ==
    IF i > Len(s) THEN 0 ELSE IF s[i] = n THEN i ELSE PlaceFrom(s, n, i + 1)
Place(n) == PlaceFrom(NamesYielded, n, 1)
LexPlace(n) == PlaceFrom(NameOrder, n, 1)

\* The object traversed, all of whose attributes hold different values (so
\* that no name is lost to the seen set), traversed to the end with the
\* default predicate.
SlotsTraversed ==
    /\ Exhausted /\ recurse.kind = "all" /\ objs[1].kind = "slotted"
    /\ Len(walk.out) = 1 + Cardinality(DOMAIN objs[1].slot) + Cardinality(DOMAIN objs[1].attrs)

SlotsFirst ==
    \A s \in DOMAIN objs[1].slot, a \in DOMAIN objs[1].attrs : Place(s) < Place(a)
EachNameOnce ==
    \A i, j \in 1..Len(NamesYielded) : NamesYielded[i] = NamesYielded[j] => i = j
DynamicSorted ==
    \A a1, a2 \in DOMAIN objs[1].attrs :
       LexPlace(a1) < LexPlace(a2) => Place(a1) < Place(a2)
\* The slots the base class declares, and those only the derived class declares.
OfBase == {objs[1].mro[2][i] : i \in 1..Len(objs[1].mro[2])} \cap DOMAIN objs[1].slot
OfDerivedOnly == DOMAIN objs[1].slot \ OfBase
BaseFirst == \A s \in OfBase, d \in OfDerivedOnly : Place(s) < Place(d)
\* The slots the derived class declares, and those only the base class declares.
OfDerived == {objs[1].mro[1][i] : i \in 1..Len(objs[1].mro[1])} \cap DOMAIN objs[1].slot
OfBaseOnly == DOMAIN objs[1].slot \ OfDerived
DerivedFirst == \A d \in OfDerived, s \in OfBaseOnly : Place(d) < Place(s)

\* C27: for an attribute-bearing object the traversal yields slot attributes
\* before dynamic (__dict__) attributes, slots declared by a base class
\* before slots declared by a derived class, each slot name once, and the
\* dynamic attributes in lexicographic name order.
C27_SlotOrder ==
    SlotsTraversed => SlotsFirst /\ BaseFirst /\ EachNameOnce /\ DynamicSorted

\* C27 with the order of the code: the slots of the derived class come
\* before those of its base class.
C27_DerivedSlotsFirst ==
    SlotsTraversed => SlotsFirst /\ DerivedFirst /\ EachNameOnce /\ DynamicSorted

----------------------------------------------------------------------------
\* The paths of at most MaxEdges segments.
WalkSegments ==
    {Idx(i) : i \in 0..(MaxEdges - 1)} \cup {Key(MapKeys[i]) : i \in 1..MaxEdges}
WalkPaths == UNION {[1..n -> WalkSegments] : n \in 0..MaxEdges}

\* The path leads from the root to a value, and the predicate is true at the
\* path and at all of its prefixes.
Accepted(path) ==
    /\ Resolve(objs, Root, path) # NoneV
    /\ \A q \in Prefixes(path) : Recurse(recurse, q, Resolve(objs, Root, q))

\* C30: the exhausted traversal has yielded every object that is reachable
\* from the root by at least one path at which, and at all of whose prefixes,
\* the predicate is true, whatever other paths lead to the object.
C30_AcceptedYielded ==
    Exhausted =>
      \A path \in WalkPaths :
         Accepted(path) => \E pv \in Yielded : pv[2] = Resolve(objs, Root, path)

\* C30 for a structure no object of which is reachable by two paths, where
\* it holds.
C30_OnePathEach == Acyclic(objs) => C30_AcceptedYielded

----------------------------------------------------------------------------
(***************************************************************************)
(* configgle/traverse.py: path_matches_pattern, could_path_lead_to_pattern *)
(* and should_recurse_for_patterns.                                        *)
(*                                                                         *)
(* A string is a sequence of characters.  A path is a tuple of segments,   *)
(* each a string key or an integer index; the functions work on the        *)
(* string ".".join(str(p) for p in path) and on the regular expression     *)
(* built from the pattern, and both are modelled as such.                  *)
(***************************************************************************)

\* The most segments of a path and of a pattern.
MaxSegs == 3

IntSeg(i) == [t |-> "int", i |-> i, s |-> <<>>]
StrSeg(str) == [t |-> "str", i |-> 0, s |-> str]

\* The segments of the paths asked about: the keys a and b, the index 0, and
\* the mapping key "a.b".
PathSegs == {StrSeg(<<"a">>), StrSeg(<<"b">>), IntSeg(0), StrSeg(<<"a", ".", "b">>)}
Paths == UNION {[1..n -> PathSegs] : n \in 0..MaxSegs}

\* str(p) of a segment.
DigitChars == <<"0", "1", "2", "3", "4", "5", "6", "7", "8", "9">>
Str(seg) == IF seg.t = "int" THEN <<DigitChars[seg.i + 1]>> ELSE seg.s

\* ".".join(parts)
RECURSIVE Join(_)
Join(parts) ==
    IF parts = <<>> THEN <<>>
    ELSE IF Len(parts) = 1 THEN parts[1]
    ELSE parts[1] \o <<".">> \o Join(Tail(parts))

\* string.split("."), reading on from the segment cur
RECURSIVE SplitAt(_, _)
SplitAt(str, cur) ==
    IF str = <<>> THEN <<cur>>
    ELSE IF Head(str) = "." THEN <<cur>> \o SplitAt(Tail(str), <<>>)
    ELSE SplitAt(Tail(str), Append(cur, Head(str)))
Split(str) == SplitAt(str, <<>>)

StartsWith(str, pre) == Len(pre) <= Len(str) /\ SubSeq(str, 1, Len(pre)) = pre
EndsWith(str, suf) ==
    Len(suf) <= Len(str) /\ SubSeq(str, Len(str) - Len(suf) + 1, Len(str)) = suf
HasChar(str, c) == \E i \in 1..Len(str) : str[i] = c

\* ".".join(str(p) for p in path)
PathStr(path) == Join([i \in 1..Len(path) |-> Str(path[i])])

\* The patterns asked about: one to MaxSegs parts a, b or *, and "**".
PatternParts == {<<"a">>, <<"b">>, <<"*">>}
Patterns ==
    {Join(ps) : ps \in UNION {[1..n -> PatternParts] : n \in 1..MaxSegs}}
        \cup {<<"*", "*">>}

\* Regular expressions, as the sequence of their tokens: an escaped literal
\* character, [^.]+, $ and (?:\.|$).
Lit(c) == [k |-> "lit", c |-> c]
NonDots == [k |-> "nondots", c |-> ""]
EndOfString == [k |-> "end", c |-> ""]
DotOrEnd == [k |-> "dotorend", c |-> ""]

\* re.match: does the expression, from token t on, match str from pos on?
RECURSIVE ReMatch(_, _, _, _)
ReMatch(re, t, str, pos) ==
    IF t > Len(re) THEN TRUE
    ELSE CASE re[t].k = "lit" ->
                 /\ pos <= Len(str) /\ str[pos] = re[t].c
                 /\ ReMatch(re, t + 1, str, pos + 1)
           [] re[t].k = "nondots" ->
                 \E n \in 1..(Len(str) + 1 - pos) :
                     /\ \A i \in pos..(pos + n - 1) : str[i] # "."
                     /\ ReMatch(re, t + 1, str, pos + n)
           [] re[t].k = "end" ->
                 pos = Len(str) + 1 /\ ReMatch(re, t + 1, str, pos)
           [] re[t].k = "dotorend" ->
                 \/ pos <= Len(str) /\ str[pos] = "." /\ ReMatch(re, t + 1, str, pos + 1)
                 \/ pos = Len(str) + 1 /\ ReMatch(re, t + 1, str, pos)

\* r"[^.]+" for the part "*", re.escape(part) for any other part
RegexPart(part) ==
    IF part = <<"*">> THEN <<NonDots>> ELSE [i \in 1..Len(part) |-> Lit(part[i])]

\* r"\.".join(regex_parts)
RECURSIVE RegexJoin(_)
RegexJoin(parts) ==
    IF parts = <<>> THEN <<>>
    ELSE IF Len(parts) = 1 THEN RegexPart(parts[1])
    ELSE RegexPart(parts[1]) \o <<Lit(".")>> \o RegexJoin(Tail(parts))

path_matches_pattern(path_str, pattern) ==
    IF pattern = <<"*", "*">> THEN TRUE
    ELSE LET regex_pattern == RegexJoin(Split(pattern)) IN
         IF EndsWith(pattern, <<".", "*">>) \/ HasChar(pattern, "*")
         THEN ReMatch(regex_pattern \o <<EndOfString>>, 1, path_str, 1)
         ELSE ReMatch(regex_pattern \o <<DotOrEnd>>, 1, path_str, 1)

could_path_lead_to_pattern(path_str, pattern) ==
    LET path_parts == Split(path_str)
        parts == Split(pattern)
    IN  IF path_matches_pattern(path_str, pattern) THEN TRUE
        ELSE IF EndsWith(pattern, <<".", "*">>)
        THEN LET prefix == SubSeq(pattern, 1, Len(pattern) - 2) IN
             path_str = prefix \/ StartsWith(path_str, prefix \o <<".">>)
        ELSE IF HasChar(pattern, "*")
        THEN IF Len(path_parts) <= Len(parts)
             THEN \A i \in 1..Len(path_parts) :
                      parts[i] = <<"*">> \/ parts[i] = path_parts[i]
             ELSE \E i \in 0..(Len(path_parts) - Len(parts)) :
                      path_matches_pattern(
                          Join(SubSeq(path_parts, 1, i + Len(parts))), pattern)
        ELSE StartsWith(pattern, path_str \o <<".">>)

\* include is None, or a set of patterns
NoInclude == [none |-> TRUE, pats |-> {}]
Include(pats) == [none |-> FALSE, pats |-> pats]

\* A filter that looks at the exclude set for the empty path too.
should_recurse_root_too(path, include, exclude) ==
    IF \E p \in exclude : path_matches_pattern(PathStr(path), p) THEN FALSE
    ELSE IF include.none THEN TRUE
    ELSE \E p \in include.pats : could_path_lead_to_pattern(PathStr(path), p)

\* A filter that asks the include set first.
should_recurse_include_first(path, include, exclude) ==
    IF path = <<>> THEN TRUE
    ELSE IF ~include.none
            /\ \E p \in include.pats : could_path_lead_to_pattern(PathStr(path), p)
    THEN TRUE
    ELSE ~\E p \in exclude : path_matches_pattern(PathStr(path), p)

should_recurse_for_patterns(path, include, exclude) ==
    IF path = <<>> THEN TRUE
    ELSE LET path_str == PathStr(path) IN
         IF \E p \in exclude : path_matches_pattern(path_str, p) THEN FALSE
         ELSE IF include.none THEN TRUE
         ELSE \E p \in include.pats : could_path_lead_to_pattern(path_str, p)

\* The patterns of the include and exclude sets asked about.
FilterPatterns ==
    {<<"a">>, <<"b">>, <<"a", ".", "b">>, <<"*">>, <<"a", ".", "*">>,
     <<"*", ".", "b">>, <<"*", "*">>}
Includes ==
    {NoInclude} \cup {Include(ps) : ps \in {x \in SUBSET FilterPatterns : Cardinality(x) <= 2}}
Excludes == {x \in SUBSET FilterPatterns : Cardinality(x) <= 1}

PatternQuery(path, pattern) ==
    [fn |-> "pattern", path |-> path, pattern |-> pattern,
     include |-> NoInclude, exclude |-> {}]
FilterQuery(path, include, exclude) ==
    [fn |-> "filter", path |-> path, pattern |-> <<>>,
     include |-> include, exclude |-> exclude]
Queries ==
    {PatternQuery(path, pattern) : path \in Paths, pattern \in Patterns}
        \cup {FilterQuery(path, inc, exc) :
                 path \in Paths, inc \in Includes, exc \in Excludes}

MatchInit ==
    /\ query \in Queries
    /\ answer = [fn |-> "none"]
    /\ NoSession
    /\ NoTraversal
    /\ NoUpdate
    /\ NoFinalize

\* path_matches_pattern(path, pattern) with the path as a tuple
Matches ==
    /\ query.fn = "pattern" /\ answer.fn = "none"
    /\ answer' = [fn |-> "matches",
                  r |-> path_matches_pattern(PathStr(query.path), query.pattern)]
    /\ UNCHANGED query
    /\ UNCHANGED notMatch

\* could_path_lead_to_pattern(path_str, pattern)
CouldLead ==
    /\ query.fn = "pattern" /\ answer.fn \in {"none", "matches"}
    /\ answer' = [fn |-> "could",
                  r |-> could_path_lead_to_pattern(PathStr(query.path), query.pattern)]
    /\ UNCHANGED query
    /\ UNCHANGED notMatch

\* should_recurse_for_patterns(path, include, exclude)
ShouldRecurse ==
    /\ query.fn = "filter" /\ answer.fn = "none"
    /\ answer' = [fn |-> "recurse",
                  r |-> should_recurse_for_patterns(query.path, query.include,
                                                    query.exclude)]
    /\ UNCHANGED query
    /\ UNCHANGED notMatch

MatchNext == Matches \/ CouldLead \/ ShouldRecurse

SpecMatch == MatchInit /\ [][MatchNext]_vars

----------------------------------------------------------------------------
\* Vocabulary of the pattern claims

\* A pattern one of whose segments is "*".
HasStarSegment(pattern) ==
    \E i \in 1..Len(Split(pattern)) : Split(pattern)[i] = <<"*">>

\* Path and pattern have the same number of segments, and every segment of
\* the pattern is "*" or equal to the path segment at its position.
Segmentwise(path, pattern) ==
    LET parts == Split(pattern) IN
    /\ Len(path) = Len(parts)
    /\ \A i \in 1..Len(parts) : parts[i] = <<"*">> \/ parts[i] = Str(path[i])

\* A path none of whose segments holds a dot or is empty.
Plain(path) ==
    \A i \in 1..Len(path) : Str(path[i]) # <<>> /\ ~HasChar(Str(path[i]), ".")

\* C16: for a pattern with a "*" segment, path_matches_pattern(path, pattern)
\* is true exactly when path and pattern have the same number of segments and
\* each pattern segment is "*" or equals the path segment at its position.
C16_SegmentwiseMatch ==
    (answer.fn = "matches" /\ HasStarSegment(query.pattern)) =>
        (answer.r <=> Segmentwise(query.path, query.pattern))

\* C16 on the paths whose segments hold no dot: there the equivalence holds.
C16_PlainPaths ==
    (answer.fn = "matches" /\ HasStarSegment(query.pattern) /\ Plain(query.path)) =>
        (answer.r <=> Segmentwise(query.path, query.pattern))

----------------------------------------------------------------------------
\* The path is a proper prefix of the pattern: it has fewer segments, and
\* each of them is accepted by the pattern segment at its position.
PrefixOfPattern(path, pattern) ==
    LET parts == Split(pattern) IN
    /\ Len(path) < Len(parts)
    /\ \A i \in 1..Len(path) : parts[i] = <<"*">> \/ parts[i] = Str(path[i])

\* The path lies below a path that matches the pattern.
BelowMatch(path, pattern) ==
    \E n \in 0..(Len(path) - 1) :
        path_matches_pattern(PathStr(SubSeq(path, 1, n)), pattern)

\* C17: could_path_lead_to_pattern is true for a path that matches the
\* pattern, for a non-empty path that is a proper prefix of the pattern, and
\* for a path below a matching path (asked for paths whose segments hold no
\* dot, on which splitting the joined path gives the segments back).
C17_CouldLead ==
    (answer.fn = "could" /\ Plain(query.path) /\ query.path # <<>>) =>
        ((\/ path_matches_pattern(PathStr(query.path), query.pattern)
          \/ PrefixOfPattern(query.path, query.pattern)
          \/ BelowMatch(query.path, query.pattern)) => answer.r)

\* A pattern that ends in ".*" after anything but one literal segment.
LongStarTail(pattern) ==
    /\ EndsWith(pattern, <<".", "*">>)
    /\ Len(Split(pattern)) > 2 \/ Split(pattern)[1] = <<"*">>

\* C17 for the other patterns: there the three statements hold.
C17_OtherPatterns ==
    (answer.fn = "could" /\ Plain(query.path) /\ query.path # <<>>
        /\ ~LongStarTail(query.pattern)) =>
        ((\/ path_matches_pattern(PathStr(query.path), query.pattern)
          \/ PrefixOfPattern(query.path, query.pattern)
          \/ BelowMatch(query.path, query.pattern)) => answer.r)

----------------------------------------------------------------------------
Asked == answer.fn = "recurse"
Excluded(path, exclude) ==
    \E p \in exclude : path_matches_pattern(PathStr(path), p)
Included(path, include) ==
    include.none \/ \E p \in include.pats : could_path_lead_to_pattern(PathStr(path), p)

\* C18: for every path, include set and exclude set, the answer of
\* should_recurse_for_patterns is true if and only if no exclude pattern
\* matches the path and (include is None or the path could lead to one of the
\* include patterns).
C18_EveryPath ==
    Asked => (answer.r <=> (~Excluded(query.path, query.exclude)
                              /\ Included(query.path, query.include)))

\* C18 as the code has it: the equivalence for every non-empty path, and the
\* answer true for the empty path whatever the two sets are.
C18_NonEmptyPaths ==
    Asked => IF query.path = <<>> THEN answer.r
             ELSE answer.r <=> (~Excluded(query.path, query.exclude)
                                  /\ Included(query.path, query.include))

\* A non-empty path asked with an exclude pattern that does not match it and
\* an include set one of whose two patterns it could lead to.
C18_Witness ==
    /\ Asked /\ answer.r
    /\ query.path # <<>>
    /\ query.exclude # {}
    /\ ~query.include.none /\ Cardinality(query.include.pats) = 2
    /\ \E p \in query.include.pats :
          ~could_path_lead_to_pattern(PathStr(query.path), p)

\* The path begins with the segments a wildcard-free pattern names.
Names(pattern, path) ==
    LET parts == Split(pattern) IN
    /\ ~HasChar(pattern, "*")
    /\ Len(parts) <= Len(path)
    /\ \A i \in 1..Len(parts) : parts[i] = Str(path[i])

\* C19: a non-empty path matched by an exclude pattern is denied whatever the
\* include set is; a path that is, or lies below, the path a wildcard-free
\* exclude pattern names is denied; and with include = {a} and exclude =
\* {a.b}, (a, 0) is allowed and (a, b) denied.
C19_ExclusionWins ==
    Asked =>
        /\ (query.path # <<>> /\ Excluded(query.path, query.exclude)) => ~answer.r
        /\ (\E p \in query.exclude : Names(p, query.path)) => ~answer.r
        /\ (query.include = Include({<<"a">>}) /\ query.exclude = {<<"a", ".", "b">>}) =>
              /\ query.path = <<StrSeg(<<"a">>), IntSeg(0)>> => answer.r
              /\ query.path = <<StrSeg(<<"a">>), StrSeg(<<"b">>)>> => ~answer.r

\* A path below the one the exclude pattern a.b names, which the include
\* pattern a would let through, has been denied.
C19_Witness ==
    /\ Asked /\ ~answer.r
    /\ query.exclude = {<<"a", ".", "b">>}
    /\ query.include = Include({<<"a">>})
    /\ query.path = <<StrSeg(<<"a">>), StrSeg(<<"b">>), IntSeg(0)>>

----------------------------------------------------------------------------
(***************************************************************************)
(* configgle/fig.py: Maker.update and _get_object_attribute_names.         *)
(*                                                                         *)
(* The names of an object's attributes are read off a traversal of the     *)
(* object with the predicate len(path) <= 1, which is the generator above  *)
(* run to its end.  Attribute values are small integers and False, each    *)
(* one object however many attributes hold it, as in CPython.              *)
(***************************************************************************)

FalseV == [t |-> "bool", v |-> 0]

\* list(generator): the frames run until none is left.
RECURSIVE Drain(_, _, _)
Drain(g, p, w) ==
    IF w.stack = <<>> THEN w
    ELSE IF w.stack[Len(w.stack)].i = 0 THEN Drain(g, p, Enter(g, p, w))
    ELSE Drain(g, p, Advance(g, w))

Traverse(g, item, p) ==
    Drain(g, p, [at |-> "running", stack |-> <<Frame(item, <<>>)>>,
                 seen |-> {}, out |-> <<>>]).out

\* The names filtered out of the pairs yielded.
RECURSIVE NamesOf(_)
NamesOf(out) ==
    IF out = <<>> THEN <<>>
    ELSE LET path == Head(out)[1] IN
         IF /\ Len(path) = 1
            /\ path[1].t = "key"
            /\ path[1].k \notin {"__weakref__", "__dict__", "_finalized"}
         THEN <<path[1].k>> \o NamesOf(Tail(out))
         ELSE NamesOf(Tail(out))

_get_object_attribute_names(g, obj) ==
    NamesOf(Traverse(g, obj, [kind |-> "depth", d |-> 1]))

Range(f) == {f[i] : i \in DOMAIN f}

\* setattr(obj, name, value)
SetAttribute(g, obj, name, value) ==
    [g EXCEPT ![obj.v].attrs =
        [n \in DOMAIN @ \cup {name} |-> IF n = name THEN value ELSE @[n]]]

\* The loop over the names of source, from the i-th name on.
RECURSIVE ApplySource(_, _, _, _, _, _)
ApplySource(g, self, source, names, i, c) ==
    IF i > Len(names) THEN g
    ELSE IF names[i] \in DOMAIN c.kwargs
            \/ (c.skip_missing /\ names[i] \notin c.valid_keys)
    THEN ApplySource(g, self, source, names, i + 1, c)
    ELSE ApplySource(SetAttribute(g, self, names[i], g[source.v].attrs[names[i]]),
                     self, source, names, i + 1, c)

\* The loop over kwargs (each key is set once, so the order is immaterial).
RECURSIVE ApplyKwargs(_, _, _, _)
ApplyKwargs(g, self, todo, c) ==
    IF todo = {} THEN g
    ELSE LET k == CHOOSE x \in todo : TRUE IN
         IF c.skip_missing /\ k \notin c.valid_keys
         THEN ApplyKwargs(g, self, todo \ {k}, c)
         ELSE ApplyKwargs(SetAttribute(g, self, k, c.kwargs[k]), self, todo \ {k}, c)

\* self.update(source, skip_missing=..., **kwargs): the objects afterwards.
Updated(g, self, source, skip_missing, kwargs) ==
    LET c == [kwargs |-> kwargs, skip_missing |-> skip_missing,
              valid_keys |-> IF skip_missing
                             THEN Range(_get_object_attribute_names(g, self))
                             ELSE {}]
        g1 == IF source = NoneV THEN g
              ELSE ApplySource(g, self, source,
                               _get_object_attribute_names(g, source), 1, c)
    IN  ApplyKwargs(g1, self, DOMAIN kwargs, c)

\* The objects of a call: the config (object 1) and the source (object 2), an
\* object with attributes or a list.
FieldValues == {IntV(1), IntV(2), FalseV}
Configs == {[kind |-> "obj", attrs |-> a] : a \in [{"x", "y"} -> {IntV(0), IntV(1)}]}
Sources ==
    {[kind |-> "obj", attrs |-> a] :
        a \in [{"x", "y"} -> FieldValues] \cup [{"_finalized", "x", "y"} -> FieldValues]}
        \cup {[kind |-> "seq", kids |-> <<IntV(1), IntV(2)>>]}
Kwargs == UNION {[ks -> {IntV(1), IntV(7)}] : ks \in SUBSET {"x", "y"}}

UpdateInit ==
    /\ \E cfg \in Configs, src \in Sources, source \in {NoneV, Ref(2)},
          kw \in Kwargs, skip \in BOOLEAN :
          upd = [at |-> "call", heap |-> <<cfg, src>>, before |-> <<cfg, src>>,
                 source |-> source, kwargs |-> kw, skip_missing |-> skip,
                 names |-> <<>>]
    /\ NoSession
    /\ NoTraversal
    /\ NoQuery
    /\ NoFinalize

\* cfg.update(source, skip_missing=skip_missing, **kwargs)
Update ==
    /\ upd.at = "call"
    /\ upd' = [upd EXCEPT !.at = "updated",
                          !.heap = Updated(upd.heap, Ref(1), upd.source,
                                           upd.skip_missing, upd.kwargs)]
    /\ UNCHANGED notUpdate

\* list(_get_object_attribute_names(obj)) for one of the two objects
AttributeNames(obj) ==
    /\ upd.at = "call"
    /\ upd' = [upd EXCEPT !.at = "names", !.source = obj,
                          !.names = _get_object_attribute_names(upd.heap, obj)]
    /\ UNCHANGED notUpdate

UpdateNext == Update \/ \E o \in {1, 2} : AttributeNames(Ref(o))

SpecUpdate == UpdateInit /\ [][UpdateNext]_vars

----------------------------------------------------------------------------
\* The string attribute names source exposes, other than _finalized.
Exposed(obj) ==
    IF obj.kind = "obj" THEN DOMAIN obj.attrs \ {"_finalized"} ELSE {}

\* C20: after cfg.update(source, **kwargs), for every attribute name n that
\* source exposes (other than _finalized), cfg.n is kwargs[n] when n is in
\* kwargs and source.n otherwise, whatever values the attributes hold; and
\* the enumeration of attribute names yields every string attribute name of
\* an object and no integer index.
C20_UpdateCopiesAll ==
    /\ (upd.at = "updated" /\ upd.source # NoneV /\ ~upd.skip_missing) =>
          \A n \in Exposed(upd.before[2]) :
              upd.heap[1].attrs[n] = IF n \in DOMAIN upd.kwargs THEN upd.kwargs[n]
                                     ELSE upd.before[2].attrs[n]
    /\ upd.at = "names" => Range(upd.names) = Exposed(upd.before[upd.source.v])

\* C20 for objects no two of whose attributes hold the same value: there the
\* statement holds.
C20_DistinctValues ==
    LET distinct(obj) ==
            obj.kind = "obj" =>
                \A m, n \in DOMAIN obj.attrs : obj.attrs[m] = obj.attrs[n] => m = n
    IN
    /\ (upd.at = "updated" /\ upd.source # NoneV /\ ~upd.skip_missing
            /\ distinct(upd.before[2])) =>
          \A n \in Exposed(upd.before[2]) :
              upd.heap[1].attrs[n] = IF n \in DOMAIN upd.kwargs THEN upd.kwargs[n]
                                     ELSE upd.before[2].attrs[n]
    /\ (upd.at = "names" /\ distinct(upd.before[upd.source.v])) =>
          Range(upd.names) = Exposed(upd.before[upd.source.v])

----------------------------------------------------------------------------
(***************************************************************************)
(* configgle/fig.py: Maker.finalize and _finalize_value.                   *)
(*                                                                         *)
(* A config is an object with the slot _finalized; copy.copy and the       *)
(* rebuilt containers are new objects, appended to the objects of the      *)
(* call, so the objects that were there before keep their places.  The     *)
(* names a loop runs over are those _get_object_attribute_names gives for  *)
(* the fresh copy: the generator reads the values the copy held when it    *)
(* was made, which the loop replaces only after they have been yielded.    *)
(***************************************************************************)

TrueV == [t |-> "bool", v |-> 1]

\* isinstance(value, _HasFinalize): of the objects here the configs alone
\* have a finalize method.
IsMaker(g, value) ==
    /\ value.t = "ref"
    /\ g[value.v].kind = "obj"
    /\ "_finalized" \in DOMAIN g[value.v].attrs
\* ... and not getattr(value, "_finalized", False)
Unfinalized(g, value) == IsMaker(g, value) /\ g[value.v].attrs["_finalized"] # TrueV

RECURSIVE finalize(_, _)
RECURSIVE _finalize_value(_, _)
RECURSIVE FinalizeNames(_, _, _, _)
RECURSIVE FinalizeItems(_, _, _, _)

\* The loop `for name in _get_object_attribute_names(r)` of both functions,
\* from the i-th name on: the objects afterwards.
FinalizeNames(g, r, names, i) ==
    IF i > Len(names) THEN g
    ELSE LET value == g[r.v].attrs[names[i]]
             f == _finalize_value(g, value)
         IN  FinalizeNames(IF f.res # value
                           THEN SetAttribute(f.heap, r, names[i], f.res)
                           ELSE f.heap,
                           r, names, i + 1)

\* [_finalize_value(v) for v in value], from the i-th item on.
FinalizeItems(g, kids, i, done) ==
    IF i > Len(kids) THEN [heap |-> g, res |-> done]
    ELSE LET f == _finalize_value(g, kids[i])
         IN  FinalizeItems(f.heap, kids, i + 1, Append(done, f.res))

\* self.finalize(): the objects afterwards and the value returned.
finalize(g, self) ==
    LET g1 == Append(g, g[self.v])
        r == Ref(Len(g1))
        g2 == FinalizeNames(g1, r, _get_object_attribute_names(g1, r), 1)
    IN  [heap |-> SetAttribute(g2, r, "_finalized", TrueV), res |-> r]

_finalize_value(g, value) ==
    IF Unfinalized(g, value) THEN finalize(g, value)
    ELSE IF value.t # "ref"
    \* copy.copy of an int, a bool or None is the value itself, and it has
    \* no attributes
    THEN [heap |-> g, res |-> value]
    ELSE IF g[value.v].kind \in {"seq", "map"}
    THEN LET f == FinalizeItems(g, g[value.v].kids, 1, <<>>)
         IN  [heap |-> Append(f.heap, [kind |-> g[value.v].kind, kids |-> f.res]),
              res |-> Ref(Len(f.heap) + 1)]
    ELSE LET g1 == Append(g, g[value.v])
             r == Ref(Len(g1))
         IN  [heap |-> FinalizeNames(g1, r, _get_object_attribute_names(g1, r), 1),
              res |-> r]

\* The objects of a call: the receiver (object 1), a config with the fields
\* x and y; a nested config (object 2), finalized already or not; and a
\* list, a dict or an object with one attribute (object 3) that may hold
\* the nested config.
FieldsOfRoot == {IntV(1), Ref(2), Ref(3)}
Nested ==
    {[kind |-> "obj", attrs |-> [_finalized |-> f, x |-> IntV(i)]] :
        f \in {FalseV, TrueV}, i \in {1, 2}}
Held == {Ref(2), IntV(1)}
Holders ==
    {[kind |-> k, kids |-> kids] :
        k \in {"seq", "map"}, kids \in UNION {[1..n -> Held] : n \in 0..2}}
        \cup {[kind |-> "obj", attrs |-> [a |-> v]] : v \in Held}
FinalizeHeaps ==
    {<<[kind |-> "obj", attrs |-> [_finalized |-> FalseV, x |-> x, y |-> y]], s, c>> :
        x \in FieldsOfRoot, y \in FieldsOfRoot, s \in Nested, c \in Holders}

FinalizeInit ==
    /\ \E g \in FinalizeHeaps :
          fz = [at |-> "call", heap |-> g, before |-> g, arg |-> NoneV, res |-> NoneV]
    /\ NoSession
    /\ NoTraversal
    /\ NoQuery
    /\ NoUpdate

\* cfg.finalize()
Finalize ==
    /\ fz.at = "call"
    /\ LET f == finalize(fz.heap, Ref(1))
       IN  fz' = [fz EXCEPT !.at = "finalized", !.heap = f.heap,
                            !.arg = Ref(1), !.res = f.res]
    /\ UNCHANGED notFinalize

\* _finalize_value(value) for the nested config or the holder
FinalizeValue(value) ==
    /\ fz.at = "call"
    /\ LET f == _finalize_value(fz.heap, value)
       IN  fz' = [fz EXCEPT !.at = "value", !.heap = f.heap,
                            !.arg = value, !.res = f.res]
    /\ UNCHANGED notFinalize

FinalizeNext == Finalize \/ \E o \in {2, 3} : FinalizeValue(Ref(o))

SpecFinalize == FinalizeInit /\ [][FinalizeNext]_vars

----------------------------------------------------------------------------
\* after is what before is once every config in it that was not yet
\* finalized is replaced by its finalized result: the same structure, with
\* the flag of every config true.
RECURSIVE FinalizedOf(_, _, _, _)
FinalizedOf(gb, before, ga, after) ==
    IF before.t # "ref" THEN after = before
    ELSE /\ after.t = "ref"
         /\ ga[after.v].kind = gb[before.v].kind
         /\ IF gb[before.v].kind = "obj"
            THEN /\ DOMAIN ga[after.v].attrs = DOMAIN gb[before.v].attrs
                 /\ \A n \in DOMAIN gb[before.v].attrs :
                       IF n = "_finalized" THEN ga[after.v].attrs[n] = TrueV
                       ELSE FinalizedOf(gb, gb[before.v].attrs[n],
                                        ga, ga[after.v].attrs[n])
            ELSE /\ Len(ga[after.v].kids) = Len(gb[before.v].kids)
                 /\ \A i \in 1..Len(gb[before.v].kids) :
                       FinalizedOf(gb, gb[before.v].kids[i], ga, ga[after.v].kids[i])

\* The objects a call was made on are as they were.
ObjectsKept == SubSeq(fz.heap, 1, Len(fz.before)) = fz.before

\* C21: cfg.finalize() returns a new object with _finalized true in which
\* every nested config that was not yet finalized (held in a field, or
\* inside a list, a dict or an object with attributes) is replaced by its
\* finalized result, and it leaves the receiver unchanged: the receiver's
\* _finalized flag is still false and each of its fields holds the value
\* it held before.
C21_FinalizeReplacesNested ==
    fz.at = "finalized" =>
        /\ fz.res.t = "ref"
        /\ fz.res.v > Len(fz.before)
        /\ fz.heap[fz.res.v].attrs["_finalized"] = TrueV
        /\ FinalizedOf(fz.before, fz.arg, fz.heap, fz.res)
        /\ fz.heap[1] = fz.before[1]
        /\ fz.heap[1].attrs["_finalized"] = FalseV

\* The values the receiver's attribute enumeration passes over: a field
\* whose value an earlier field holds, or an item of an earlier field holds.
RootFields == <<"x", "y">>
MetEarlier(g, i) ==
    LET value == g[1].attrs[RootFields[i]] IN
    \E j \in 1..(i - 1) :
        LET earlier == g[1].attrs[RootFields[j]] IN
        \/ earlier = value
        \/ \E k \in 1..Len(Kids(g, earlier)) : Kids(g, earlier)[k] = value

\* C21 for receivers none of whose configs is met twice by the enumeration
\* of the receiver's fields: there the statement holds, and the objects the
\* call was made on are all as they were.
C21_ConfigsMetOnce ==
    (/\ fz.at = "finalized"
     /\ \A i \in 1..Len(RootFields) :
           MetEarlier(fz.before, i) => ~Unfinalized(fz.before, fz.before[1].attrs[RootFields[i]])
                                       /\ fz.before[1].attrs[RootFields[i]] # Ref(3))
        => /\ C21_FinalizeReplacesNested
           /\ ObjectsKept

\* _finalize_value of a nested config or a holder: the result is the value
\* with its configs finalized, and the objects are as they were.
C21_FinalizeValue ==
    fz.at = "value" =>
        /\ FinalizedOf(fz.before, fz.arg, fz.heap, fz.res)
        /\ ObjectsKept

====
